---- MODULE Spec2Model ----
(***************************************************************************)
(* Verification model of the Firmia orchestration substrate:               *)
(*   - resilience/circuit_breaker.py  (CircuitBreaker)                     *)
(*   - auth/base.py, auth/oauth2.py   (AuthClient.get_token)               *)
(*   - cache/manager.py, cache/redis_cache.py (check_rate_limit)           *)
(*   - resilience/retry.py, api/base.py (retry_with_backoff, _make_request)*)
(*   - tools/get_company_profile.py   (get_complete_profile)               *)
(*   - cache/duckdb_cache.py          (_load_parquet_sync)                 *)
(* Each component has its own specification; the variables of the other    *)
(* components stay at their initial values.                                *)
(***************************************************************************)
EXTENDS Integers, Naturals, Sequences, FiniteSets, TLC

(***************************************************************************)
(* Circuit breaker: resilience/circuit_breaker.py                          *)
(***************************************************************************)
VARIABLES
    state,              \* CircuitBreaker.state
    failure_count,      \* CircuitBreaker.failure_count
    last_failure_time,  \* CircuitBreaker.last_failure_time (NoTime = None)
    success_count,      \* CircuitBreaker.success_count
    half_open_calls,    \* CircuitBreaker.half_open_calls
    cb_lock,            \* CircuitBreaker._lock: 0 = free, else the holding task
    cb_now,             \* datetime.utcnow() as seen by the breaker
    cb_pc,              \* per task: position inside call()
    cb_result,          \* per task: how the current call() ended
    cb_invoked,         \* per task: func was invoked by the current call()
    cb_entry,           \* per task: breaker fields as read when call() took the lock
    cb_calls            \* number of call() started so far

cbVars == <<state, failure_count, last_failure_time, success_count,
            half_open_calls, cb_lock, cb_now, cb_pc, cb_result, cb_invoked,
            cb_entry, cb_calls>>

(***************************************************************************)
(* Credential store: auth/base.py, auth/oauth2.py, auth/jwt.py             *)
(***************************************************************************)
VARIABLES
    auth_kind,      \* which AuthClient: "endpoint" or "static"
    auth_token,     \* AuthClient._token (NoToken = None); left = ticks to expires_at
    refresh_lock,   \* AuthClient._refresh_lock: 0 = free, else the holder
    static_left,    \* ticks until the static bearer's own expiry
    auth_pc,        \* per task: position inside get_token()
    auth_mode,      \* per task: branch of get_token taken
    auth_result,    \* per task: "ok" (value returned) or "error" (raised)
    auth_got,       \* per task: token value returned
    auth_reqs,      \* per task: requests the current call sent to the endpoint
    auth_first,     \* per task: endpoint's answer to the call's first request
    auth_saw,       \* per task: what the call found when get_token was called
    auth_issued,    \* number of tokens issued by the endpoint
    auth_calls,     \* number of get_token calls started
    auth_invalidations, \* number of invalidate_token calls
    auth_dropped    \* the token values invalidate_token has dropped so far

authVars == <<auth_kind, auth_token, refresh_lock, static_left, auth_pc, auth_mode,
              auth_result, auth_got, auth_reqs, auth_first, auth_saw,
              auth_issued, auth_calls, auth_invalidations,
                   auth_dropped>>

(***************************************************************************)
(* Rate limiter: cache/manager.py check_rate_limit over cache/redis_cache  *)
(***************************************************************************)
VARIABLES
    rl_value,       \* Redis: value stored under the rate-limit key (0 = no key)
    rl_ttl,         \* Redis: ticks until the key expires (NoExpiry = persistent)
    rl_pc,          \* per task: position inside check_rate_limit
    rl_cur,         \* per task: local "current" read by redis.get (NoneRead = None)
    rl_allowed,     \* per task: first component of the result
    rl_ret,         \* per task: second component of the result
    rl_recent,      \* admissions by age in ticks, for ages below the window
    rl_key_admits,  \* admissions since the present counter key was created
    rl_calls        \* number of check_rate_limit calls started

rlVars == <<rl_value, rl_ttl, rl_pc, rl_cur, rl_allowed, rl_ret, rl_recent,
            rl_key_admits, rl_calls>>

(***************************************************************************)
(* Retry executor (resilience/retry.py) and the HTTP caller it wraps       *)
(* (api/base.py _make_request)                                             *)
(***************************************************************************)
VARIABLES
    rt_op,          \* the wrapped operation: "generic" or "request" (_make_request)
    rt_pc,          \* position of the wrapped call
    rt_max,         \* config.max_attempts of the decorator
    rt_calls,       \* invocations of the wrapped function in this call
    rt_outcomes,    \* outcome of each finished attempt, in order
    rq_requests,    \* client.request() calls performed in this call
    rq_last,        \* what the transport answered in the latest attempt
    rq_invalidated, \* invalidate_token was called in this call
    rq_limiter      \* check_rate_limit calls made in this call

rtVars == <<rt_op, rt_pc, rt_max, rt_calls, rt_outcomes, rq_requests, rq_last,
            rq_invalidated, rq_limiter>>

(***************************************************************************)
(* Profile orchestrator (tools/get_company_profile.py)                     *)
(***************************************************************************)
VARIABLES
    pf_cache,       \* profile cache: siren -> cached contents (NoProfile = none)
    pf_pc,          \* per task: position inside get_complete_profile
    pf_siren,       \* per task: params.siren of the call
    pf_local,       \* per task: the output built from the gathered results
    pf_result,      \* per task: contents returned (NoProfile = none yet)
    pf_fanned,      \* per task: the call issued its own upstream calls
    pf_with,        \* per task: calls on the same siren it overlapped with after a miss
    pf_fanouts,     \* siren -> number of fan-outs (asyncio.gather) issued
    pf_calls        \* number of get_complete_profile calls started

pfVars == <<pf_cache, pf_pc, pf_siren, pf_local, pf_result, pf_fanned, pf_with,
            pf_fanouts, pf_calls>>

(***************************************************************************)
(* Analytic store: DuckDBCache.load_parquet (cache/duckdb_cache.py)        *)
(***************************************************************************)
VARIABLES
    ld_table,       \* contents of <table> (Missing = no such table)
    ld_staging,     \* contents of <table>_staging
    ld_old,         \* contents of <table>_old
    ld_meta,        \* record_count stored in cache_metadata for <table>
    ld_txn,         \* catalog snapshot of the open transaction (NoTxn = autocommit)
    ld_pc,          \* position inside _load_parquet_sync
    ld_file,        \* the file being loaded
    ld_count,       \* local variable count
    ld_before,      \* contents of <table> when the call started
    ld_result,      \* "ok" (count returned) or "error" (exception raised)
    ld_failed_at,   \* the statement that raised, if any
    ld_calls        \* number of load_parquet calls started

ldVars == <<ld_table, ld_staging, ld_old, ld_meta, ld_txn, ld_pc, ld_file, ld_count,
            ld_before, ld_result, ld_failed_at, ld_calls>>

(***************************************************************************)
(* Pipeline scheduler (pipeline/scheduler.py)                              *)
(***************************************************************************)
VARIABLES
    sj_running,     \* per job: ScheduledJob.is_running
    sj_due,         \* per job: utcnow() >= next_run
    sj_pending,     \* per job: tasks created by the loop that have not started
    sj_exec,        \* per job and trigger kind: runs awaiting task_func
    sj_force,       \* job whose run force_update_all awaits (0 = not in progress)
    sj_last,        \* the job.run() calls of the latest step: job, busy, result
    sj_triggers,    \* number of manual and force triggers so far
    sj_last_run     \* per job: parity of the assignments to ScheduledJob.last_run

sjVars == <<sj_running, sj_due, sj_pending, sj_exec, sj_force, sj_last, sj_triggers,
            sj_last_run>>

(***************************************************************************)
(* Audit logger (privacy/audit.py)                                         *)
(***************************************************************************)
VARIABLES
    au_buffer,      \* AuditLogger._buffer: entries not yet flushed, in order
    au_files,       \* flush files by the second in their name: lines written
    au_now,         \* the UTC second of the wall clock
    au_pc,          \* per flusher: position inside _flush_buffer
    au_file,        \* per flusher: the second naming the file it writes
    au_idx,         \* per flusher: position of its loop over the buffer
    au_sealed,      \* per file: its lines when the first flush into it ended
    au_logged       \* number of entries passed to log_access so far

auVars == <<au_buffer, au_files, au_now, au_pc, au_file, au_idx, au_sealed, au_logged>>

(***************************************************************************)
(* Privacy filter (privacy/filters.py)                                     *)
(***************************************************************************)
VARIABLES
    pv_pc,          \* position of the caller: idle, chosen, redacted, again
    pv_path,        \* the entry point the caller uses
    pv_input,       \* the entity handed to the redactor
    pv_out,         \* what the redactor returned for pv_input
    pv_again        \* what the redactor returned for pv_out

pvVars == <<pv_pc, pv_path, pv_input, pv_out, pv_again>>

(***************************************************************************)
(* Circuit breaker registry and decorator (resilience/circuit_breaker.py)  *)
(***************************************************************************)
VARIABLES
    dc_registry,    \* _circuit_breakers: the breaker registered under each name
    dc_args,        \* the arguments the function was decorated with
    dc_pc,          \* undecorated, or ready once the decorator has run
    dc_now,         \* wall clock, in seconds
    dc_streak,      \* consecutive failures of the decorated type so far
    dc_last,        \* how the last call of the wrapper ended
    dc_ran,         \* whether the last call ran the decorated function
    dc_calls        \* number of calls of the wrapper so far

dcVars == <<dc_registry, dc_args, dc_pc, dc_now, dc_streak, dc_last, dc_ran,
            dc_calls>>

(***************************************************************************)
(* Search fan-out and merge (tools/search_companies.py)                    *)
(***************************************************************************)
VARIABLES
    sr_pc,          \* position of the search: gather, merging, merged, ...
    sr_results,     \* results of asyncio.gather: one result dict per source
    sr_idx,         \* index of the next source_result the merge loop takes
    sr_map,         \* merged_map: business key -> merged record
    sr_seen         \* seen_sirens

srVars == <<sr_pc, sr_results, sr_idx, sr_map, sr_seen>>

(***************************************************************************)
(* Profile fan-out and fusion (tools/get_company_profile.py)               *)
(***************************************************************************)
VARIABLES
    fu_pc,          \* position inside get_complete_profile
    fu_cache,       \* the cached output for the siren (NoOutput = none)
    fu_tasks,       \* task_names of the current call
    fu_results,     \* what each finished task handed to asyncio.gather
    fu_company,     \* the merged company of the current call
    fu_out,         \* the output of the current call
    fu_steps,       \* the steps after the gather the current call has run
    fu_hit,         \* whether the current call was served from the cache
    fu_calls,       \* calls of get_complete_profile so far
    fu_ended,       \* calls that have returned or raised so far
    fu_audit,       \* entries appended to the audit ledger so far
    fu_probe        \* how the privacy probe of the current call ended

fuVars == <<fu_pc, fu_cache, fu_tasks, fu_results, fu_company, fu_out, fu_steps,
            fu_hit, fu_calls, fu_ended, fu_audit, fu_probe>>

(***************************************************************************)
(* Cache key (cache/manager.py)                                            *)
(***************************************************************************)
VARIABLES
    ck_pc,          \* idle, chosen, keyed
    ck_a,           \* first params dict: its items in insertion order
    ck_b,           \* second params dict
    ck_key_a,       \* the key generated for ck_a
    ck_key_b        \* the key generated for ck_b

ckVars == <<ck_pc, ck_a, ck_b, ck_key_a, ck_key_b>>

(***************************************************************************)
(* Ingestion run (pipeline/etl.py)                                         *)
(***************************************************************************)
VARIABLES
    et_pc,          \* position inside process_dataset
    et_expected,    \* expected_hash of the current run (NoHash = None)
    et_file,        \* contents of the scratch file (NoScratch = no file)
    et_recent,      \* the scratch file is less than 24 hours old
    et_status,      \* result["status"] of the latest run
    et_mismatch,    \* verify_file of the current run found another hash
    et_loaded,      \* load_to_duckdb was invoked by the current run
    et_reused,      \* download_file of the current run reused the scratch file
    et_runs         \* runs started so far

etVars == <<et_pc, et_expected, et_file, et_recent, et_status, et_mismatch,
            et_loaded, et_reused, et_runs>>

(***************************************************************************)
(* Search pagination (tools/search_companies.py)                           *)
(***************************************************************************)
VARIABLES
    pg_pc,          \* position inside search_companies
    pg_params,      \* params.page and params.per_page of the request
    pg_hits,        \* how many entries of the source match the query
    pg_asked,       \* the offset and limit the source was asked with
    pg_found,       \* the entries the source returned
    pg_response     \* the results of the response

pgVars == <<pg_pc, pg_params, pg_hits, pg_asked, pg_found, pg_response>>

vars == <<cbVars, authVars, rlVars, rtVars, pfVars, ldVars, sjVars, auVars,
    pvVars, dcVars, srVars, fuVars, ckVars, etVars, pgVars>>

\* The variables each component leaves alone
notBreaker == <<authVars, rlVars, rtVars, pfVars, ldVars, sjVars, auVars,
    pvVars, dcVars, srVars, fuVars, ckVars, etVars, pgVars>>
notAuth == <<cbVars, rlVars, rtVars, pfVars, ldVars, sjVars, auVars, pvVars,
    dcVars, srVars, fuVars, ckVars, etVars, pgVars>>
notRate == <<cbVars, authVars, rtVars, pfVars, ldVars, sjVars, auVars,
    pvVars, dcVars, srVars, fuVars, ckVars, etVars, pgVars>>
notRetry == <<cbVars, authVars, rlVars, pfVars, ldVars, sjVars, auVars,
    pvVars, dcVars, srVars, fuVars, ckVars, etVars, pgVars>>
notProfile == <<cbVars, authVars, rlVars, rtVars, ldVars, sjVars, auVars,
    pvVars, dcVars, srVars, fuVars, ckVars, etVars, pgVars>>
notLoad == <<cbVars, authVars, rlVars, rtVars, pfVars, sjVars, auVars,
    pvVars, dcVars, srVars, fuVars, ckVars, etVars, pgVars>>
notSched == <<cbVars, authVars, rlVars, rtVars, pfVars, ldVars, auVars,
    pvVars, dcVars, srVars, fuVars, ckVars, etVars, pgVars>>
notAudit == <<cbVars, authVars, rlVars, rtVars, pfVars, ldVars, sjVars,
    pvVars, dcVars, srVars, fuVars, ckVars, etVars, pgVars>>
notPrivacy == <<cbVars, authVars, rlVars, rtVars, pfVars, ldVars, sjVars,
    auVars, dcVars, srVars, fuVars, ckVars, etVars, pgVars>>
notDecorator == <<cbVars, authVars, rlVars, rtVars, pfVars, ldVars, sjVars,
    auVars, pvVars, srVars, fuVars, ckVars, etVars, pgVars>>
notSearch == <<cbVars, authVars, rlVars, rtVars, pfVars, ldVars, sjVars,
    auVars, pvVars, dcVars, fuVars, ckVars, etVars, pgVars>>
notFusion == <<cbVars, authVars, rlVars, rtVars, pfVars, ldVars, sjVars,
    auVars, pvVars, dcVars, srVars, ckVars, etVars, pgVars>>
notCacheKey == <<cbVars, authVars, rlVars, rtVars, pfVars, ldVars, sjVars,
    auVars, pvVars, dcVars, srVars, fuVars, etVars, pgVars>>
notIngest == <<cbVars, authVars, rlVars, rtVars, pfVars, ldVars, sjVars,
    auVars, pvVars, dcVars, srVars, fuVars, ckVars, pgVars>>
notPaging == <<cbVars, authVars, rlVars, rtVars, pfVars, ldVars, sjVars,
    auVars, pvVars, dcVars, srVars, fuVars, ckVars, etVars>>

\* Bounds of the breaker model
NumCallers == 2
MaxCalls == 7
MaxTime == 4

\* Constructor arguments (test fixture / defaults, recovery_timeout scaled)
failure_threshold == 3
recovery_timeout == 2
half_open_max_calls == 2

CBTasks == 1..NumCallers
NoTime == -1

CLOSED == "closed"
OPEN == "open"
HALF_OPEN == "half_open"

\* Mutant of ShouldAttemptRecovery: recovery attempted one time unit early
ShouldAttemptRecovery_early(lft, now) ==
    IF lft = NoTime THEN TRUE
    ELSE (now - lft) >= recovery_timeout - 1

\* CircuitBreaker._should_attempt_recovery
ShouldAttemptRecovery(lft, now) ==
    IF lft = NoTime THEN TRUE
    ELSE (now - lft) >= recovery_timeout

NoEntry == [st |-> "none", early |-> FALSE, quota |-> FALSE, sc |-> 0, due |-> FALSE]

CBInit ==
    /\ state = CLOSED
    /\ failure_count = 0
    /\ last_failure_time = NoTime
    /\ success_count = 0
    /\ half_open_calls = 0
    /\ cb_lock = 0
    /\ cb_now = 0
    /\ cb_pc = [t \in CBTasks |-> "idle"]
    /\ cb_result = [t \in CBTasks |-> "none"]
    /\ cb_invoked = [t \in CBTasks |-> FALSE]
    /\ cb_entry = [t \in CBTasks |-> NoEntry]
    /\ cb_calls = 0

\* What call() reads on entry, kept for the properties
EntryOf(st, lft, now, hoc, sc) ==
    [st    |-> st,
     early |-> (st = OPEN /\ lft # NoTime /\ (now - lft) < recovery_timeout),
     due   |-> (st = OPEN /\ lft # NoTime /\ (now - lft) >= recovery_timeout),
     quota |-> (st = HALF_OPEN /\ hoc >= half_open_max_calls),
     sc    |-> sc]

\* CircuitBreaker.call, lines 53-62: the breaker is open and recovery is not
\* due: raise "Circuit breaker ... is OPEN"; the lock is released by the raise.
CallRejected(t) ==
    /\ UNCHANGED notBreaker
    /\ cb_pc[t] = "idle" /\ cb_lock = 0 /\ cb_calls < MaxCalls
    /\ state = OPEN
    /\ ~ShouldAttemptRecovery(last_failure_time, cb_now)
    /\ cb_calls' = cb_calls + 1
    /\ cb_entry' = [cb_entry EXCEPT ![t] =
                      EntryOf(state, last_failure_time, cb_now, half_open_calls, success_count)]
    /\ cb_pc' = [cb_pc EXCEPT ![t] = "done"]
    /\ cb_result' = [cb_result EXCEPT ![t] = "circuit_open"]
    /\ cb_invoked' = [cb_invoked EXCEPT ![t] = FALSE]
    /\ UNCHANGED <<state, failure_count, last_failure_time, success_count,
                   half_open_calls, cb_lock, cb_now>>

\* The half-open quota test with > in place of >=
QuotaUsedUp_gt(hoc) == hoc > half_open_max_calls

\* CircuitBreaker.call, line 65: self.half_open_calls >= self.half_open_max_calls
QuotaUsedUp(hoc) == hoc >= half_open_max_calls

\* State and half_open_calls after lines 55-59 (open -> half_open when due)
StateAfterRecoveryCheck == IF state = OPEN THEN HALF_OPEN ELSE state
CallsAfterRecoveryCheck == IF state = OPEN THEN 0 ELSE half_open_calls

\* CircuitBreaker.call, lines 53-78: the call is admitted; func starts.
CallAdmitted(t) ==
    /\ UNCHANGED notBreaker
    /\ cb_pc[t] = "idle" /\ cb_lock = 0 /\ cb_calls < MaxCalls
    /\ state = OPEN => ShouldAttemptRecovery(last_failure_time, cb_now)
    /\ ~(StateAfterRecoveryCheck = HALF_OPEN
         /\ QuotaUsedUp(CallsAfterRecoveryCheck))
    /\ cb_calls' = cb_calls + 1
    /\ cb_entry' = [cb_entry EXCEPT ![t] =
                      EntryOf(state, last_failure_time, cb_now, half_open_calls, success_count)]
    /\ state' = StateAfterRecoveryCheck
    /\ half_open_calls' = IF StateAfterRecoveryCheck = HALF_OPEN
                          THEN CallsAfterRecoveryCheck + 1
                          ELSE CallsAfterRecoveryCheck
    /\ cb_pc' = [cb_pc EXCEPT ![t] = "exec"]
    /\ cb_result' = [cb_result EXCEPT ![t] = "none"]
    /\ cb_invoked' = [cb_invoked EXCEPT ![t] = TRUE]
    /\ UNCHANGED <<failure_count, last_failure_time, success_count, cb_lock, cb_now>>

\* CircuitBreaker.call, lines 65-74: half-open quota used up. The circuit is
\* closed (success_count > 0, _close_circuit) or opened (_open_circuit), then
\* call() awaits self.call() while still inside "async with self._lock".
\* asyncio.Lock is not reentrant: the inner call waits for the lock its own
\* task holds, so the task never proceeds and the lock is never released.
CallQuotaExhausted(t) ==
    /\ UNCHANGED notBreaker
    /\ cb_pc[t] = "idle" /\ cb_lock = 0 /\ cb_calls < MaxCalls
    /\ state = OPEN => ShouldAttemptRecovery(last_failure_time, cb_now)
    /\ StateAfterRecoveryCheck = HALF_OPEN
    /\ QuotaUsedUp(CallsAfterRecoveryCheck)
    /\ cb_calls' = cb_calls + 1
    /\ cb_entry' = [cb_entry EXCEPT ![t] =
                      EntryOf(state, last_failure_time, cb_now, half_open_calls, success_count)]
    /\ half_open_calls' = CallsAfterRecoveryCheck
    /\ IF success_count > 0
       THEN /\ state' = CLOSED          \* _close_circuit
            /\ failure_count' = 0
            /\ success_count' = 0
       ELSE /\ state' = OPEN            \* _open_circuit
            /\ UNCHANGED <<failure_count, success_count>>
    /\ cb_lock' = t
    /\ cb_pc' = [cb_pc EXCEPT ![t] = "await_own_lock"]
    /\ cb_result' = [cb_result EXCEPT ![t] = "none"]
    /\ cb_invoked' = [cb_invoked EXCEPT ![t] = FALSE]
    /\ UNCHANGED <<last_failure_time, cb_now>>

\* func returned; CircuitBreaker._on_success (lines 101-112), then return result.
OnSuccess(t) ==
    /\ UNCHANGED notBreaker
    /\ cb_pc[t] = "exec" /\ cb_lock = 0
    /\ success_count' = IF state = HALF_OPEN THEN success_count + 1 ELSE success_count
    /\ failure_count' = IF state = CLOSED THEN 0 ELSE failure_count
    /\ cb_pc' = [cb_pc EXCEPT ![t] = "done"]
    /\ cb_result' = [cb_result EXCEPT ![t] = "ok"]
    /\ UNCHANGED <<state, last_failure_time, half_open_calls, cb_lock, cb_now,
                   cb_invoked, cb_entry, cb_calls>>

\* Mutant of ReachedThreshold: off by one (> instead of >=)
ReachedThreshold_gt(fc) == fc > failure_threshold

\* CircuitBreaker._on_failure, line 126
ReachedThreshold(fc) == fc >= failure_threshold

\* func raised expected_exception; CircuitBreaker._on_failure (lines 114-132),
\* then the exception is re-raised.
OnFailure(t) ==
    /\ UNCHANGED notBreaker
    /\ cb_pc[t] = "exec" /\ cb_lock = 0
    /\ last_failure_time' = cb_now
    /\ IF state = CLOSED
       THEN /\ failure_count' = failure_count + 1
            /\ state' = IF ReachedThreshold(failure_count + 1) THEN OPEN ELSE CLOSED
       ELSE IF state = HALF_OPEN
       THEN /\ state' = OPEN
            /\ UNCHANGED failure_count
       ELSE UNCHANGED <<state, failure_count>>
    /\ cb_pc' = [cb_pc EXCEPT ![t] = "done"]
    /\ cb_result' = [cb_result EXCEPT ![t] = "expected"]
    /\ UNCHANGED <<success_count, half_open_calls, cb_lock, cb_now,
                   cb_invoked, cb_entry, cb_calls>>

\* func raised an exception that is not expected_exception (lines 86-91)
OnUnexpected(t) ==
    /\ UNCHANGED notBreaker
    /\ cb_pc[t] = "exec"
    /\ cb_pc' = [cb_pc EXCEPT ![t] = "done"]
    /\ cb_result' = [cb_result EXCEPT ![t] = "unexpected"]
    /\ UNCHANGED <<state, failure_count, last_failure_time, success_count,
                   half_open_calls, cb_lock, cb_now, cb_invoked, cb_entry, cb_calls>>

\* func returned or raised while the lock is held by a stuck task:
\* _on_success/_on_failure wait for the lock forever.
OnOutcomeBlocked(t) ==
    /\ UNCHANGED notBreaker
    /\ cb_pc[t] = "exec" /\ cb_lock # 0
    /\ cb_pc' = [cb_pc EXCEPT ![t] = "await_lock"]
    /\ UNCHANGED <<state, failure_count, last_failure_time, success_count,
                   half_open_calls, cb_lock, cb_now, cb_result, cb_invoked,
                   cb_entry, cb_calls>>

\* The caller of call() got its result or exception and may call again.
CallReturn(t) ==
    /\ UNCHANGED notBreaker
    /\ cb_pc[t] = "done"
    /\ cb_pc' = [cb_pc EXCEPT ![t] = "idle"]
    /\ cb_result' = [cb_result EXCEPT ![t] = "none"]
    /\ cb_invoked' = [cb_invoked EXCEPT ![t] = FALSE]
    /\ cb_entry' = [cb_entry EXCEPT ![t] = NoEntry]
    /\ UNCHANGED <<state, failure_count, last_failure_time, success_count,
                   half_open_calls, cb_lock, cb_now, cb_calls>>

\* Wall-clock time passes
CBTick ==
    /\ UNCHANGED notBreaker
    /\ cb_now < MaxTime
    /\ cb_now' = cb_now + 1
    /\ UNCHANGED <<state, failure_count, last_failure_time, success_count,
                   half_open_calls, cb_lock, cb_pc, cb_result, cb_invoked,
                   cb_entry, cb_calls>>

(***************************************************************************)
(* Properties of the circuit breaker                                       *)
(***************************************************************************)

\* C1: a call() that finds the breaker open with less than recovery_timeout
\* elapsed since last_failure_time is rejected with the circuit-open error
\* and does not invoke the wrapped function.
C1_OpenRejects ==
    \A t \in CBTasks :
        cb_entry[t].early =>
            /\ cb_pc[t] = "done"
            /\ cb_result[t] = "circuit_open"
            /\ ~cb_invoked[t]

C1_Witness ==
    \E t \in CBTasks :
        /\ cb_entry[t].early
        /\ cb_result[t] = "circuit_open"
        /\ \E u \in CBTasks : u # t /\ cb_pc[u] = "exec"

\* A call by t ends with the expected exception re-raised in this step
FailureRecorded(t) == cb_pc[t] = "exec" /\ cb_result'[t] = "expected"
\* A call by t ends with func's result returned in this step
SuccessRecorded(t) == cb_pc[t] = "exec" /\ cb_result'[t] = "ok"

\* C2: in closed state every expected failure is re-raised and adds one to
\* failure_count, a success resets failure_count to 0, and the breaker goes
\* from closed to open exactly when failure_count reaches failure_threshold
\* (so a closed breaker always has failure_count < failure_threshold and the
\* call after the threshold-th failure finds the breaker open).
C2_ClosedCounts ==
    [][ /\ \A t \in CBTasks :
             (FailureRecorded(t) /\ state = CLOSED) =>
                 /\ failure_count' = failure_count + 1
                 /\ cb_pc'[t] = "done"
                 /\ (state' = OPEN) <=> (failure_count' = failure_threshold)
                 /\ state' \in {CLOSED, OPEN}
        /\ \A t \in CBTasks :
             (SuccessRecorded(t) /\ state = CLOSED) =>
                 (failure_count' = 0 /\ state' = CLOSED)
        /\ (state = CLOSED /\ state' = OPEN) =>
             /\ \E t \in CBTasks : FailureRecorded(t)
             /\ failure_count' = failure_threshold
             /\ last_failure_time' = cb_now
        /\ (state' = CLOSED) => (failure_count' < failure_threshold)
      ]_vars

C2_Witness ==
    /\ state = OPEN
    /\ failure_count = failure_threshold
    /\ \E t \in CBTasks : cb_result[t] = "expected"
    /\ \E t \in CBTasks : cb_result[t] = "circuit_open"

\* C3 (as claimed): a call that finds the open breaker due for recovery moves
\* it to half_open and executes the function; a call that arrives in
\* half_open with the probe quota used up and at least one recorded success
\* closes the circuit, executes the function and returns its result.
C3_HalfOpenRecoveryCompletes ==
    \A t \in CBTasks :
        /\ cb_entry[t].due => cb_invoked[t]
        /\ (cb_entry[t].quota /\ cb_entry[t].sc > 0) =>
               (cb_invoked[t] /\ cb_pc[t] \in {"exec", "done"})

\* The step admits the call of t: func is invoked
Admits(t) == cb_pc[t] = "idle" /\ cb_pc'[t] = "exec"

\* C32: half_open_calls counts the calls admitted to the wrapped function in
\* the current half-open period (1 for the call that starts the period, one
\* more for each later admission, never reset inside the period) and never
\* exceeds half_open_max_calls; an expected failure of a call while the
\* breaker is half_open moves it to open with last_failure_time set to the
\* time of that failure.
C32_HalfOpenProbesBounded ==
    [][ /\ \A t \in CBTasks :
             (Admits(t) /\ state' = HALF_OPEN) =>
                 /\ half_open_calls' =
                       IF state = OPEN THEN 1 ELSE half_open_calls + 1
                 /\ half_open_calls' <= half_open_max_calls
        /\ (state = HALF_OPEN /\ state' = HALF_OPEN) =>
             half_open_calls' >= half_open_calls
        /\ (state = HALF_OPEN /\ half_open_calls' # half_open_calls) =>
             \E t \in CBTasks : Admits(t)
        /\ \A t \in CBTasks :
             (FailureRecorded(t) /\ state = HALF_OPEN) =>
                 (state' = OPEN /\ last_failure_time' = cb_now)
      ]_vars

\* C32 witness: the half-open period has admitted half_open_max_calls probes,
\* one of them failed, and the breaker is open with the timer at that failure
C32_Witness ==
    /\ state = OPEN
    /\ half_open_calls = half_open_max_calls
    /\ last_failure_time = cb_now
    /\ \E t \in CBTasks :
          /\ cb_result[t] = "expected"
          /\ cb_entry[t].st = HALF_OPEN
    /\ \E u \in CBTasks : cb_pc[u] = "exec" /\ cb_entry[u].due

\* The fields of the breaker named by the claim
BreakerFields ==
    <<state, failure_count, success_count, half_open_calls, last_failure_time>>

\* C33 (as claimed): an exception that does not match expected_exception is
\* propagated and the breaker is as if the call had not been made.  Whether
\* func raises such an exception is decided after the call is admitted, so
\* neither the admission of a call nor the propagation of the exception may
\* change state, failure_count, success_count, half_open_calls or
\* last_failure_time.
C33_UnexpectedLeavesBreakerAlone ==
    [][\A t \in CBTasks :
          /\ (cb_pc[t] = "exec" /\ cb_result'[t] = "unexpected")
                => (cb_pc'[t] = "done" /\ UNCHANGED BreakerFields)
          /\ Admits(t) => UNCHANGED BreakerFields]_vars

\* The step starts a half-open period
HalfOpenStarts == state # HALF_OPEN /\ state' = HALF_OPEN

\* C40 (as claimed): success_count is 0 whenever a half-open period starts,
\* and a call admitted while the breaker was closed that succeeds after the
\* breaker became half_open does not increment it.
C40_SuccessCountOfCurrentPeriod ==
    [][ /\ HalfOpenStarts => success_count' = 0
        /\ \A t \in CBTasks :
             (SuccessRecorded(t) /\ cb_entry[t].st = CLOSED)
                 => success_count' = success_count
      ]_vars


(***************************************************************************)
(* Credential store: AuthClient.get_token (auth/base.py), with             *)
(* OAuth2Client / JWTClient authenticate and refresh                       *)
(***************************************************************************)

\* Bounds of the credential model
NumAuthTasks == 2
MaxAuthCalls == 2
MaxInvalidations == 1

\* Time is counted in ticks and kept relative to the token: a token records
\* the ticks left until expires_at (expires_at - utcnow()), and the clock
\* tick decreases it.  expires_in_seconds truncates to whole seconds.
TicksPerSecond == 2
\* The proactive-refresh window of get_token (300 s in the source, scaled)
SkewSeconds == 2
\* Lifetimes (seconds) the token endpoint may grant: inside / outside the window
ShortLife == 1
LongLife == 2
Lifetimes == {ShortLife, LongLife}
\* The static bearer of the "static" client and the expiry in its payload
StaticValue == 99
StaticLife == 3

AuthTasks == 1..NumAuthTasks
\* "endpoint": OAuth2Client and the login JWTClient (which never receives a
\* refresh token); "static": the JWTClient built from a configured bearer
AuthKinds == {"endpoint", "static"}
NoToken == [value |-> 0, left |-> 0, has_refresh |-> FALSE]

\* Token.is_expired
IsExpired(tok) == tok.left <= 0

\* Token.expires_in_seconds
ExpiresInSeconds(tok) ==
    IF tok.left > 0 THEN tok.left \div TicksPerSecond ELSE 0

\* Mutant of ExpiringSoon: the proactive window is ignored
ExpiringSoon_never(tok) == FALSE

\* get_token line 70: expires_in_seconds is truthy and < 300
ExpiringSoon(tok) ==
    ExpiresInSeconds(tok) # 0 /\ ExpiresInSeconds(tok) < SkewSeconds

\* The cached token needs no endpoint contact (none of lines 60, 63, 70 holds)
Fresh(tok) ==
    tok # NoToken /\ ~IsExpired(tok) /\ ~ExpiringSoon(tok)

\* Mutant of LockFree: get_token without the per-service lock
LockFree_always == TRUE

\* asyncio.Lock of get_token (line 58) can be taken
LockFree == refresh_lock = 0

\* The token built from the static bearer (JWTClient.authenticate, lines 52-70)
StaticToken == [value |-> StaticValue, left |-> static_left, has_refresh |-> FALSE]

\* The token built from a successful endpoint response
IssuedToken(n, life, rt) ==
    [value |-> n, left |-> life * TicksPerSecond, has_refresh |-> rt]

\* What a call found when get_token was called, kept for the properties:
\* the value of the expired cached token (0 if none), and whether the call
\* had to queue on the lock behind another call
NoSnap == [value |-> 0, queued |-> FALSE]
SnapOf(tok, q) ==
    [value |-> IF tok # NoToken /\ IsExpired(tok) THEN tok.value ELSE 0,
     queued |-> q]

\* A token obtained earlier whose expires_at has passed
ExpiredToken(rt) == [value |-> 1, left |-> 0, has_refresh |-> rt]

\* No client exists for the service until AuthManager.initialize creates it
AuthInit ==
    /\ auth_kind = "none"
    /\ auth_token = NoToken
    /\ auth_issued = 0
    /\ refresh_lock = 0
    /\ static_left = 0
    /\ auth_pc = [t \in AuthTasks |-> "idle"]
    /\ auth_mode = [t \in AuthTasks |-> "none"]
    /\ auth_result = [t \in AuthTasks |-> "none"]
    /\ auth_got = [t \in AuthTasks |-> 0]
    /\ auth_reqs = [t \in AuthTasks |-> 0]
    /\ auth_first = [t \in AuthTasks |-> "none"]
    /\ auth_saw = [t \in AuthTasks |-> NoSnap]
    /\ auth_calls = 0
    /\ auth_invalidations = 0
    /\ auth_dropped = {}

\* Tokens the client may hold when the calls under study begin: none (as
\* constructed), or for an endpoint client a token that an earlier
\* authenticate() obtained and that has expired since
StartTokens(k) ==
    {NoToken} \cup (IF k = "endpoint" THEN {ExpiredToken(rt) : rt \in BOOLEAN} ELSE {})

\* AuthManager.initialize (auth/manager.py 26-63) creates the client of the
\* service: an OAuth2Client / login JWTClient, or a static-bearer JWTClient
AuthClientCreated(k, tok) ==
    /\ UNCHANGED notAuth
    /\ auth_kind = "none"
    /\ auth_kind' = k
    /\ auth_token' = tok
    /\ auth_issued' = IF tok = NoToken THEN 0 ELSE 1
    /\ static_left' = IF k = "static" THEN StaticLife * TicksPerSecond ELSE 0
    /\ UNCHANGED <<refresh_lock, auth_pc, auth_mode, auth_result, auth_got, auth_reqs,
                   auth_first, auth_saw, auth_calls, auth_invalidations,
                   auth_dropped>>

\* Tasks queued on the lock
Waiters == {u \in AuthTasks : auth_pc[u] = "wait_lock"}

\* get_token is called while another task holds the lock (or is queued for
\* it: asyncio.Lock does not let a newcomer overtake waiters): the caller
\* queues on "async with self._refresh_lock" (line 58)
GetTokenWait(t) ==
    /\ UNCHANGED notAuth
    /\ auth_kind # "none"
    /\ auth_pc[t] \in {"idle", "done"} /\ auth_calls < MaxAuthCalls
    /\ ~LockFree \/ Waiters # {}
    /\ auth_calls' = auth_calls + 1
    /\ auth_pc' = [auth_pc EXCEPT ![t] = "wait_lock"]
    /\ auth_saw' = [auth_saw EXCEPT ![t] = SnapOf(auth_token, TRUE)]
    /\ auth_mode' = [auth_mode EXCEPT ![t] = "none"]
    /\ auth_result' = [auth_result EXCEPT ![t] = "none"]
    /\ auth_got' = [auth_got EXCEPT ![t] = 0]
    /\ auth_reqs' = [auth_reqs EXCEPT ![t] = 0]
    /\ auth_first' = [auth_first EXCEPT ![t] = "none"]
    /\ UNCHANGED <<auth_kind, auth_token, refresh_lock, static_left, auth_issued,
                   auth_invalidations,
                   auth_dropped>>

\* Branch of get_token (lines 60-78) for the cached token
BranchOf(tok) ==
    IF tok = NoToken THEN "initial"
    ELSE IF IsExpired(tok) THEN "expired"
    ELSE IF ExpiringSoon(tok) THEN "proactive"
    ELSE "cached"

\* Task t takes the lock (line 58): a new call that finds the lock free takes
\* it without suspending, a queued call takes it once it is released.
TakesLock(t) ==
    /\ auth_kind # "none"
    /\ LockFree
    /\ \/ auth_pc[t] = "wait_lock"
       \/ auth_pc[t] \in {"idle", "done"} /\ auth_calls < MaxAuthCalls /\ Waiters = {}
    /\ auth_calls' = IF auth_pc[t] = "wait_lock" THEN auth_calls ELSE auth_calls + 1
    /\ auth_saw' = IF auth_pc[t] = "wait_lock" THEN auth_saw
                   ELSE [auth_saw EXCEPT ![t] = SnapOf(auth_token, FALSE)]
    /\ auth_mode' = [auth_mode EXCEPT ![t] = BranchOf(auth_token)]
    /\ auth_first' = [auth_first EXCEPT ![t] = "none"]

\* Lock taken, cached token usable: return self._token.value (line 80)
GetTokenCached(t) ==
    /\ UNCHANGED notAuth
    /\ TakesLock(t)
    /\ BranchOf(auth_token) = "cached"
    /\ auth_pc' = [auth_pc EXCEPT ![t] = "done"]
    /\ auth_result' = [auth_result EXCEPT ![t] = "ok"]
    /\ auth_got' = [auth_got EXCEPT ![t] = auth_token.value]
    /\ auth_reqs' = [auth_reqs EXCEPT ![t] = 0]
    /\ UNCHANGED <<auth_kind, auth_token, refresh_lock, static_left, auth_issued,
                   auth_invalidations,
                   auth_dropped>>

\* Lock taken by the static-bearer client with no usable token: authenticate()
\* (directly or through refresh()) rebuilds the token from the configured
\* bearer without any request (jwt.py lines 52-70, 118-121) and get_token returns.
GetTokenStatic(t) ==
    /\ UNCHANGED notAuth
    /\ TakesLock(t)
    /\ auth_kind = "static"
    /\ BranchOf(auth_token) # "cached"
    /\ auth_token' = StaticToken
    /\ auth_pc' = [auth_pc EXCEPT ![t] = "done"]
    /\ auth_result' = [auth_result EXCEPT ![t] = "ok"]
    /\ auth_got' = [auth_got EXCEPT ![t] = StaticValue]
    /\ auth_reqs' = [auth_reqs EXCEPT ![t] = 0]
    /\ UNCHANGED <<auth_kind, refresh_lock, static_left, auth_issued, auth_invalidations,
                   auth_dropped>>

\* First request of a call: the refresh_token grant when refresh() has a
\* refresh token (oauth2.py line 78), otherwise authenticate()
FirstStage(tok) ==
    IF tok # NoToken /\ tok.has_refresh THEN "grant" ELSE "auth"

\* Lock taken, token missing / expired / expiring soon: a request is sent to
\* the token endpoint and the task awaits the response holding the lock.
GetTokenRequest(t) ==
    /\ UNCHANGED notAuth
    /\ TakesLock(t)
    /\ auth_kind # "static"
    /\ BranchOf(auth_token) # "cached"
    /\ refresh_lock' = t
    /\ auth_pc' = [auth_pc EXCEPT ![t] = FirstStage(auth_token)]
    /\ auth_result' = [auth_result EXCEPT ![t] = "none"]
    /\ auth_got' = [auth_got EXCEPT ![t] = 0]
    /\ auth_reqs' = [auth_reqs EXCEPT ![t] = 1]
    /\ UNCHANGED <<auth_kind, auth_token, static_left, auth_issued, auth_invalidations,
                   auth_dropped>>

InFlight(t) == auth_pc[t] \in {"grant", "auth", "fallback"}

FirstAnswer(t, ans) == IF auth_first[t] = "none" THEN ans ELSE auth_first[t]

\* get_token ends: the lock is released, value returned or exception raised
Finish(t, res, val) ==
    /\ auth_pc' = [auth_pc EXCEPT ![t] = "done"]
    /\ auth_result' = [auth_result EXCEPT ![t] = res]
    /\ auth_got' = [auth_got EXCEPT ![t] = val]
    /\ refresh_lock' = 0

\* The endpoint answers 200 with a token: OAuth2Client.authenticate lines
\* 51-68, OAuth2Client.refresh lines 96-105, JWTClient.authenticate lines
\* 86-108; get_token stores it in self._token and returns its value.
EndpointGrants(t, life, rt) ==
    /\ UNCHANGED notAuth
    /\ InFlight(t)
    /\ ~(auth_pc[t] = "grant" /\ auth_token = NoToken)
    /\ auth_issued' = auth_issued + 1
    /\ auth_token' = IssuedToken(auth_issued + 1, life,
                         IF auth_pc[t] = "grant" THEN (rt \/ auth_token.has_refresh) ELSE rt
                         )
    /\ auth_first' = [auth_first EXCEPT ![t] =
                        FirstAnswer(t, IF life >= SkewSeconds THEN "ok_long" ELSE "ok_short")]
    /\ Finish(t, "ok", auth_issued + 1)
    /\ UNCHANGED <<auth_kind, static_left, auth_mode, auth_reqs, auth_saw,
                   auth_calls, auth_invalidations,
                   auth_dropped>>

\* The refresh grant is answered 200 but the token was invalidated during the
\* await: oauth2.py line 104 reads self._token.refresh_token on None and
\* raises AttributeError out of refresh().  In the expired branch get_token
\* catches it and calls authenticate() (line 69); in the proactive branch it
\* is swallowed (line 76) and line 80 raises on self._token = None.
GrantAfterInvalidate(t) ==
    /\ UNCHANGED notAuth
    /\ auth_pc[t] = "grant" /\ auth_token = NoToken
    /\ UNCHANGED auth_issued
    /\ auth_first' = [auth_first EXCEPT ![t] = FirstAnswer(t, "ok_lost")]
    /\ IF auth_mode[t] = "expired"
       THEN /\ auth_pc' = [auth_pc EXCEPT ![t] = "fallback"]
            /\ auth_reqs' = [auth_reqs EXCEPT ![t] = @ + 1]
            /\ UNCHANGED <<auth_result, auth_got, refresh_lock>>
       ELSE /\ Finish(t, "error", 0)
            /\ UNCHANGED auth_reqs
    /\ UNCHANGED <<auth_kind, auth_token, static_left, auth_mode, auth_saw,
                   auth_calls, auth_invalidations,
                   auth_dropped>>

\* The endpoint fails and the code sends another request: the refresh grant
\* failed and refresh() re-authenticates (oauth2.py lines 107-109), or
\* refresh() raised in the expired branch and get_token calls authenticate()
\* (base.py lines 67-69).
EndpointFailsRetry(t) ==
    /\ UNCHANGED notAuth
    /\ \/ auth_pc[t] = "grant"
       \/ auth_pc[t] = "auth" /\ auth_mode[t] = "expired"
    /\ auth_pc' = [auth_pc EXCEPT ![t] = IF auth_pc[t] = "grant" THEN "auth" ELSE "fallback"]
    /\ auth_reqs' = [auth_reqs EXCEPT ![t] = @ + 1]
    /\ auth_first' = [auth_first EXCEPT ![t] = FirstAnswer(t, "fail")]
    /\ UNCHANGED <<auth_kind, auth_token, refresh_lock, static_left, auth_mode, auth_result,
                   auth_got, auth_saw, auth_issued, auth_calls,
                   auth_invalidations,
                   auth_dropped>>

\* The endpoint fails and get_token raises to its caller: initial
\* authentication (line 62) or the authenticate() fallback (line 69).
EndpointFailsRaise(t) ==
    /\ UNCHANGED notAuth
    /\ \/ auth_pc[t] = "auth" /\ auth_mode[t] = "initial"
       \/ auth_pc[t] = "fallback"
    /\ auth_first' = [auth_first EXCEPT ![t] = FirstAnswer(t, "fail")]
    /\ Finish(t, "error", 0)
    /\ UNCHANGED <<auth_kind, auth_token, static_left, auth_mode, auth_reqs, auth_saw,
                   auth_issued, auth_calls, auth_invalidations,
                   auth_dropped>>

\* The proactive refresh fails: swallowed (lines 76-78); line 80 returns the
\* cached value, or raises AttributeError if the token was invalidated.
EndpointFailsProactive(t) ==
    /\ UNCHANGED notAuth
    /\ auth_pc[t] = "auth" /\ auth_mode[t] = "proactive"
    /\ auth_first' = [auth_first EXCEPT ![t] = FirstAnswer(t, "fail")]
    /\ IF auth_token = NoToken
       THEN Finish(t, "error", 0)
       ELSE Finish(t, "ok", auth_token.value)
    /\ UNCHANGED <<auth_kind, auth_token, static_left, auth_mode, auth_reqs, auth_saw,
                   auth_issued, auth_calls, auth_invalidations,
                   auth_dropped>>

\* invalidate_token keeps the cached token
AfterInvalidate_keep(tok) == tok

\* AuthClient.invalidate_token line 99: self._token = None
AfterInvalidate(tok) == NoToken

\* AuthClient.invalidate_token (lines 97-100): synchronous, takes no lock
InvalidateToken ==
    /\ UNCHANGED notAuth
    /\ auth_kind # "none"
    /\ auth_invalidations < MaxInvalidations
    /\ auth_invalidations' = auth_invalidations + 1
    /\ auth_token' = AfterInvalidate(auth_token)
    /\ auth_dropped' = IF auth_token = NoToken THEN auth_dropped
                       ELSE auth_dropped \cup {auth_token.value}
    /\ UNCHANGED <<auth_kind, refresh_lock, static_left, auth_pc, auth_mode, auth_result,
                   auth_got, auth_reqs, auth_first, auth_saw, auth_issued,
                   auth_calls>>

\* Wall-clock time passes: one tick less until the cached token (and the
\* static bearer) expires.  Ticks after expiry change nothing.
AuthTick ==
    /\ UNCHANGED notAuth
    /\ (auth_token # NoToken /\ auth_token.left > 0) \/ static_left > 0
    /\ auth_token' = IF auth_token # NoToken /\ auth_token.left > 0
                     THEN [auth_token EXCEPT !.left = @ - 1] ELSE auth_token
    /\ static_left' = IF static_left > 0 THEN static_left - 1 ELSE 0
    /\ UNCHANGED <<auth_kind, refresh_lock, auth_pc, auth_mode, auth_result,
                   auth_got, auth_reqs, auth_first, auth_saw, auth_issued,
                   auth_calls, auth_invalidations,
                   auth_dropped>>

NextAuth ==
    \/ \E k \in AuthKinds : \E tok \in StartTokens(k) : AuthClientCreated(k, tok)
    \/ \E t \in AuthTasks : GetTokenWait(t)
    \/ \E t \in AuthTasks : GetTokenCached(t)
    \/ \E t \in AuthTasks : GetTokenStatic(t)
    \/ \E t \in AuthTasks : GetTokenRequest(t)
    \/ \E t \in AuthTasks, life \in Lifetimes, rt \in BOOLEAN : EndpointGrants(t, life, rt)
    \/ \E t \in AuthTasks : GrantAfterInvalidate(t)
    \/ \E t \in AuthTasks : EndpointFailsRetry(t)
    \/ \E t \in AuthTasks : EndpointFailsRaise(t)
    \/ \E t \in AuthTasks : EndpointFailsProactive(t)
    \/ InvalidateToken
    \/ AuthTick

(***************************************************************************)
(* Properties of the credential store                                      *)
(***************************************************************************)

AuthDone(t) == auth_pc[t] = "done"

\* t called get_token with the cached token expired and took the lock at
\* once; u called with the same expired token cached and queued
ConcurrentOnExpired(t, u) ==
    /\ t # u
    /\ AuthDone(t) /\ AuthDone(u)
    /\ auth_saw[t].value # 0 /\ auth_saw[t].value = auth_saw[u].value
    /\ ~auth_saw[t].queued /\ auth_saw[u].queued

Returned(t) == AuthDone(t) /\ auth_result[t] = "ok"

\* The step is one in which get_token returns a value to t
ReturnsValue(t) ==
    /\ \/ GetTokenCached(t)
       \/ GetTokenStatic(t)
       \/ \E life \in Lifetimes, rt \in BOOLEAN : EndpointGrants(t, life, rt)
       \/ EndpointFailsProactive(t)
    /\ auth_result'[t] = "ok"

NeedsEndpoint(tok) ==
    \/ tok = NoToken
    \/ IsExpired(tok)
    \/ tok.left < SkewSeconds * TicksPerSecond

\* C19 (as claimed): get_token contacts the token endpoint if and only if no
\* token is cached, or the cached token is expired, or it expires in less
\* than the window; otherwise it returns the cached value without any
\* endpoint call.
C19_EndpointIffStale ==
    [][\A t \in AuthTasks :
          /\ GetTokenCached(t) => ~NeedsEndpoint(auth_token)
          /\ GetTokenStatic(t) => ~NeedsEndpoint(auth_token)
          /\ GetTokenRequest(t) => NeedsEndpoint(auth_token)]_vars

\* get_token of t ends on the missing token: in the proactive branch every
\* failure of the refresh is swallowed (base.py lines 76-78), so the only
\* exception such a call raises is the AttributeError of line 80 on
\* self._token = None
FailsOnMissingToken(t) ==
    /\ auth_pc[t] # "done" /\ auth_pc'[t] = "done"
    /\ auth_mode[t] = "proactive"
    /\ auth_result'[t] = "error"

\* The call of t found a token when it took the lock, that token was
\* invalidated while the call awaited the endpoint, and the step stores the
\* token the endpoint granted to that call (base.py lines 66, 69, 74)
StoresAcrossInvalidate(t) ==
    /\ InFlight(t)
    /\ auth_mode[t] \in {"expired", "proactive"}
    /\ auth_token = NoToken
    /\ auth_token' # NoToken

\* C30 (as claimed): an invalidate_token issued while a get_token is
\* suspended in a refresh can neither make that get_token fail on the missing
\* token nor leave the client holding a token that a later get_token returns
\* without re-authenticating after the invalidation.
C30_InvalidateDuringRefreshHarmless ==
    [][\A t \in AuthTasks :
          /\ ~FailsOnMissingToken(t)
          /\ ~StoresAcrossInvalidate(t)]_vars

(***************************************************************************)
(* Rate limiter: CacheManager.check_rate_limit (cache/manager.py 127-154)  *)
(* on RedisCache.get / set / incr / get_ttl (cache/redis_cache.py)         *)
(***************************************************************************)

\* Bounds of the rate-limiter model
NumRLTasks == 2
MaxRLCalls == 5

\* settings.rate_limit_<api> (the ceiling) and settings.rate_limit_window,
\* scaled: 2 requests per window of 3 ticks
rate_limit == 2
rate_limit_window == 3

RLTasks == 1..NumRLTasks
NoneRead == -1
NoExpiry == -1

Ages == 0..(rate_limit_window - 1)

RECURSIVE SumAges(_, _)
SumAges(f, S) ==
    IF S = {} THEN 0
    ELSE LET a == CHOOSE x \in S : TRUE IN f[a] + SumAges(f, S \ {a})

\* Admissions within the last rate_limit_window ticks (a rolling interval
\* of length window ending now)
RecentAdmits == SumAges(rl_recent, Ages)

RLInit ==
    /\ rl_value = 0
    /\ rl_ttl = 0
    /\ rl_pc = [t \in RLTasks |-> "idle"]
    /\ rl_cur = [t \in RLTasks |-> NoneRead]
    /\ rl_allowed = [t \in RLTasks |-> "none"]
    /\ rl_ret = [t \in RLTasks |-> 0]
    /\ rl_recent = [a \in Ages |-> 0]
    /\ rl_key_admits = 0
    /\ rl_calls = 0

\* Mutant of AtCeiling: off by one (> instead of >=)
AtCeiling_gt(cur) == cur > rate_limit

\* check_rate_limit line 147: current_count >= limit
AtCeiling(cur) == cur >= rate_limit

\* check_rate_limit lines 133-140: current = await self.redis.get(key)
RLGet(t) ==
    /\ UNCHANGED notRate
    /\ rl_pc[t] \in {"idle", "done"} /\ rl_calls < MaxRLCalls
    /\ rl_calls' = rl_calls + 1
    /\ rl_cur' = [rl_cur EXCEPT ![t] = IF rl_value = 0 THEN NoneRead ELSE rl_value]
    /\ rl_pc' = [rl_pc EXCEPT ![t] = "read"]
    /\ rl_allowed' = [rl_allowed EXCEPT ![t] = "none"]
    /\ rl_ret' = [rl_ret EXCEPT ![t] = 0]
    /\ UNCHANGED <<rl_value, rl_ttl, rl_recent, rl_key_admits>>

Admit(t, ret) ==
    /\ rl_pc' = [rl_pc EXCEPT ![t] = "done"]
    /\ rl_allowed' = [rl_allowed EXCEPT ![t] = "allowed"]
    /\ rl_ret' = [rl_ret EXCEPT ![t] = ret]
    /\ rl_recent' = [rl_recent EXCEPT ![0] = @ + 1]

\* lines 141-144: current is None: SETEX key window 1; return (True, 1)
RLSetFirst(t) ==
    /\ UNCHANGED notRate
    /\ rl_pc[t] = "read" /\ rl_cur[t] = NoneRead
    /\ rl_value' = 1
    /\ rl_ttl' = rate_limit_window
    /\ rl_key_admits' = 1
    /\ Admit(t, 1)
    /\ UNCHANGED <<rl_cur, rl_calls>>

\* RedisCache.get_ttl (redis_cache.py 219-231): TTL, or None when the key
\* is missing (-2) or has no expiry (-1); here None is NoneRead
GetTtl == IF rl_value = 0 \/ rl_ttl = NoExpiry THEN NoneRead ELSE rl_ttl

\* lines 146-150: current_count >= limit: return (False, ttl or window)
RLDeny(t) ==
    /\ UNCHANGED notRate
    /\ rl_pc[t] = "read" /\ rl_cur[t] # NoneRead /\ AtCeiling(rl_cur[t])
    /\ rl_pc' = [rl_pc EXCEPT ![t] = "done"]
    /\ rl_allowed' = [rl_allowed EXCEPT ![t] = "denied"]
    /\ rl_ret' = [rl_ret EXCEPT ![t] =
                    IF GetTtl = NoneRead \/ GetTtl = 0 THEN rate_limit_window ELSE GetTtl]
    /\ UNCHANGED <<rl_value, rl_ttl, rl_cur, rl_recent, rl_key_admits, rl_calls>>

\* lines 152-154: new_count = INCR key; return (True, limit - new_count).
\* INCR on a key that expired since the get creates it with value 1 and no
\* expiry.
RLIncr(t) ==
    /\ UNCHANGED notRate
    /\ rl_pc[t] = "read" /\ rl_cur[t] # NoneRead /\ ~AtCeiling(rl_cur[t])
    /\ rl_value' = rl_value + 1
    /\ rl_ttl' = IF rl_value = 0 THEN NoExpiry ELSE rl_ttl
    /\ rl_key_admits' = IF rl_value = 0 THEN 1 ELSE rl_key_admits + 1
    /\ Admit(t, rate_limit - (rl_value + 1))
    /\ UNCHANGED <<rl_cur, rl_calls>>

\* One tick of wall-clock time: admissions age, the key's TTL runs down and
\* the key is removed when it reaches 0.
RLTick ==
    /\ UNCHANGED notRate
    /\ rl_value # 0 \/ RecentAdmits # 0
    /\ rl_recent' = [a \in Ages |-> IF a = 0 THEN 0 ELSE rl_recent[a - 1]]
    /\ IF rl_value # 0 /\ rl_ttl = 1
       THEN rl_value' = 0 /\ rl_ttl' = 0
       ELSE /\ rl_value' = rl_value
            /\ rl_ttl' = IF rl_ttl > 1 THEN rl_ttl - 1 ELSE rl_ttl
    /\ UNCHANGED <<rl_pc, rl_cur, rl_allowed, rl_ret, rl_key_admits, rl_calls>>

\* Calls issued one after another by a single caller
NextRateSeq ==
    \/ RLGet(1)
    \/ RLSetFirst(1)
    \/ RLDeny(1)
    \/ RLIncr(1)
    \/ RLTick

\* Concurrent callers on the same key
NextRate ==
    \/ \E t \in RLTasks : RLGet(t)
    \/ \E t \in RLTasks : RLSetFirst(t)
    \/ \E t \in RLTasks : RLDeny(t)
    \/ \E t \in RLTasks : RLIncr(t)
    \/ RLTick

(***************************************************************************)
(* Properties of the rate limiter                                          *)
(***************************************************************************)

C6_AtomicAdmission ==
    /\ rl_key_admits <= rate_limit
    /\ rl_value # 0 => rl_value = rl_key_admits
    /\ rl_value # 0 => rl_ttl # NoExpiry


\* C29 (as claimed): every rate-limit counter key that exists carries a TTL
\* of at most one window, under every interleaving of admit calls and key
\* expiry, and the retry_after returned on denial is the remaining TTL of
\* the key.
C29_CounterKeyExpires ==
    [][/\ rl_value' # 0 => rl_ttl' \in 1..rate_limit_window
       /\ \A t \in RLTasks :
             (RLDeny(t) /\ rl_value # 0) => rl_ret'[t] = rl_ttl]_vars

(***************************************************************************)
(* Retry executor: retry_with_backoff / should_retry_exception             *)
(* (resilience/retry.py), and BaseAPIClient._make_request (api/base.py)    *)
(***************************************************************************)

\* Bound of the retry model: the largest max_attempts a decorator is given
MaxAttemptsBound == 3

\* RetryConfig.retry_on_status, RetryConfig.dont_retry_on_status
retry_on_status == {500, 502, 503, 504, 429}
dont_retry_on_status == {400, 401, 403, 404}

\* RetryConfig(max_attempts=3) of the _make_request decorator
request_max_attempts == 3

\* httpx.RequestError instead of a response: connection failure, timeout
ConnectFailed == -1
TimedOut == -2
TransportErrors == {ConnectFailed, TimedOut}
\* the transport was not reached in the attempt
NoAnswer == 0

\* An exception as should_retry_exception sees it: its class, whether it has
\* a .response with a .status_code (rstatus), whether it is one of the
\* builtin network errors, and the .status_code attribute of APIError.
Exc(cls, resp, rstatus, net, code) ==
    [cls |-> cls, resp |-> resp, rstatus |-> rstatus, net |-> net, code |-> code]

\* The attempt returned a value
OkOutcome == Exc("ok", FALSE, 0, FALSE, 0)

\* Statuses carried by the exceptions of a generic wrapped operation:
\* retryable, excluded, and in neither set
GenericStatuses == {404, 418, 429, 503}

\* Exceptions a generic wrapped operation may raise
GenericExceptions ==
    {Exc("Exception", FALSE, 0, net, 0) : net \in BOOLEAN}
    \cup {Exc("Exception", TRUE, st, net, 0) : st \in GenericStatuses, net \in BOOLEAN}

\* should_retry_exception (retry.py 49-75)
should_retry_exception(e) ==
    IF e.resp /\ e.rstatus \in dont_retry_on_status THEN FALSE
    ELSE IF e.resp /\ e.rstatus \in retry_on_status THEN TRUE
    ELSE e.net

\* custom_retry (retry.py 103-108): retry only a failed outcome that
\* satisfies should_retry_exception
custom_retry(out) ==
    IF out # OkOutcome THEN should_retry_exception(out) ELSE FALSE

\* Mutant of stop_after_attempt: one attempt too many
stop_after_attempt_late(n) == n > rt_max

\* stop=stop_after_attempt(config.max_attempts) (retry.py 112)
stop_after_attempt(n) == n >= rt_max

RTInit ==
    /\ rt_op = "none"
    /\ rt_pc = "idle"
    /\ rt_max = MaxAttemptsBound
    /\ rt_calls = 0
    /\ rt_outcomes = <<>>
    /\ rq_requests = 0
    /\ rq_last = NoAnswer
    /\ rq_invalidated = FALSE
    /\ rq_limiter = 0

RTFinished == rt_pc \in {"returned", "raised", "retry_error"}

\* tenacity's loop after an attempt with outcome out: return the result or
\* re-raise the exception when custom_retry is false; otherwise raise
\* RetryError when stop_after_attempt holds; otherwise sleep and go again.
AfterAttempt(out) ==
    /\ rt_outcomes' = Append(rt_outcomes, out)
    /\ rt_pc' = IF ~custom_retry(out)
                THEN (IF out = OkOutcome THEN "returned" ELSE "raised")
                ELSE IF stop_after_attempt(rt_calls) THEN "retry_error"
                ELSE "sleeping"

\* A function decorated with retry_with_backoff(config) is called: first
\* invocation of the wrapped function (retry.py 121-123)
RetryCall(m) ==
    /\ UNCHANGED notRetry
    /\ rt_pc = "idle" \/ RTFinished
    /\ rt_op' = "generic"
    /\ rt_max' = m
    /\ rt_calls' = 1
    /\ rt_outcomes' = <<>>
    /\ rt_pc' = "running"
    /\ rq_requests' = 0 /\ rq_last' = NoAnswer /\ rq_invalidated' = FALSE
    /\ rq_limiter' = 0

\* The wrapped function returns
AttemptReturns ==
    /\ UNCHANGED notRetry
    /\ rt_op = "generic" /\ rt_pc = "running"
    /\ AfterAttempt(OkOutcome)
    /\ UNCHANGED <<rt_op, rt_max, rt_calls, rq_requests, rq_last, rq_invalidated,
                   rq_limiter>>

\* The wrapped function raises e
AttemptRaises(e) ==
    /\ UNCHANGED notRetry
    /\ rt_op = "generic" /\ rt_pc = "running"
    /\ AfterAttempt(e)
    /\ UNCHANGED <<rt_op, rt_max, rt_calls, rq_requests, rq_last, rq_invalidated,
                   rq_limiter>>

\* The backoff wait is over: the wrapped function is invoked again
BackoffElapsed ==
    /\ UNCHANGED notRetry
    /\ rt_pc = "sleeping"
    /\ rt_calls' = rt_calls + 1
    /\ rt_pc' = IF rt_op = "request" THEN "rate_limit" ELSE "running"
    /\ rq_last' = NoAnswer
    /\ UNCHANGED <<rt_op, rt_max, rt_outcomes, rq_requests, rq_invalidated,
                   rq_limiter>>

NextRetry ==
    \/ \E m \in 1..MaxAttemptsBound : RetryCall(m)
    \/ AttemptReturns
    \/ \E e \in GenericExceptions : AttemptRaises(e)
    \/ BackoffElapsed

\* ---- BaseAPIClient._make_request under its decorator ----

\* Statuses the upstream (or the token endpoint) may answer with
TransportStatuses == {200, 401, 404, 429, 500, 502, 503, 504}

\* api/base.py 19-35: APIError and its subclasses carry .status_code and no
\* .response; they are not network errors
APIError(code) == Exc("APIError", FALSE, 0, FALSE, code)
RateLimitError == Exc("RateLimitError", FALSE, 0, FALSE, 429)
AuthenticationError == Exc("AuthenticationError", FALSE, 0, FALSE, 401)
\* httpx.HTTPStatusError carries .response; httpx.RequestError does not, and
\* neither derives from the builtin network errors
HTTPStatusError(st) == Exc("HTTPStatusError", TRUE, st, FALSE, 0)
RequestError == Exc("RequestError", FALSE, 0, FALSE, 0)
\* raised by line 175 when e.response does not exist
AttributeError == Exc("AttributeError", FALSE, 0, FALSE, 0)

\* _make_request is called (line 108-119): first invocation, which starts
\* with check_rate_limit
RequestCall ==
    /\ UNCHANGED notRetry
    /\ rt_pc = "idle" \/ RTFinished
    /\ rt_op' = "request"
    /\ rt_max' = request_max_attempts
    /\ rt_calls' = 1
    /\ rt_outcomes' = <<>>
    /\ rt_pc' = "rate_limit"
    /\ rq_requests' = 0 /\ rq_last' = NoAnswer /\ rq_invalidated' = FALSE
    /\ rq_limiter' = 0

\* line 119, check_rate_limit (89-106): raises RateLimitError(429) on denial
RqRateLimit(allowed) ==
    /\ UNCHANGED notRetry
    /\ rt_op = "request" /\ rt_pc = "rate_limit"
    /\ rq_limiter' = rq_limiter + 1
    /\ IF allowed
       THEN rt_pc' = "headers" /\ UNCHANGED rt_outcomes
       ELSE AfterAttempt(RateLimitError)
    /\ UNCHANGED <<rt_op, rt_max, rt_calls, rq_requests, rq_last, rq_invalidated>>

\* line 122, get_headers succeeds
RqHeaders ==
    /\ UNCHANGED notRetry
    /\ rt_op = "request" /\ rt_pc = "headers"
    /\ rt_pc' = "transport"
    /\ UNCHANGED <<rt_op, rt_max, rt_calls, rt_outcomes, rq_requests, rq_last, rq_invalidated,
                   rq_limiter>>

\* line 122, get_headers raises what get_token raised: the token endpoint
\* answered an error status (httpx.HTTPStatusError) or was unreachable
\* (httpx.RequestError); outside the try block, so it propagates as is.
RqHeadersFail(e) ==
    /\ UNCHANGED notRetry
    /\ rt_op = "request" /\ rt_pc = "headers"
    /\ AfterAttempt(e)
    /\ UNCHANGED <<rt_op, rt_max, rt_calls, rq_requests, rq_last, rq_invalidated,
                   rq_limiter>>

\* Exceptions get_headers may raise
HeaderExceptions ==
    {HTTPStatusError(st) : st \in TransportStatuses \ {200}} \cup {RequestError}

\* What lines 135-179 make of the transport's answer r; legacy tells whether
\* the installed httpx gives RequestError a .response attribute (None)
RequestOutcome(r, legacy) ==
    IF r \in TransportErrors
    THEN (IF legacy THEN APIError(0) ELSE AttributeError)
    ELSE IF r = 401 THEN AuthenticationError
    ELSE IF r = 429 THEN RateLimitError
    ELSE IF r >= 400 THEN APIError(r)
    ELSE OkOutcome

\* lines 135-179: client.request() is awaited and answered by r
RqTransport(r, legacy) ==
    /\ UNCHANGED notRetry
    /\ rt_op = "request" /\ rt_pc = "transport"
    /\ rq_requests' = rq_requests + 1
    /\ rq_last' = r
    /\ rq_invalidated' = (rq_invalidated \/ r = 401)
    /\ AfterAttempt(RequestOutcome(r, legacy))
    /\ UNCHANGED <<rt_op, rt_max, rt_calls, rq_limiter>>

NextRequest ==
    \/ RequestCall
    \/ \E a \in BOOLEAN : RqRateLimit(a)
    \/ RqHeaders
    \/ \E e \in HeaderExceptions : RqHeadersFail(e)
    \/ \E r \in TransportStatuses \cup TransportErrors, legacy \in BOOLEAN :
          RqTransport(r, legacy)
    \/ BackoffElapsed

(***************************************************************************)
(* Properties of the retry executor and the HTTP caller                    *)
(***************************************************************************)

LastOutcome == rt_outcomes[Len(rt_outcomes)]

\* C7: a function wrapped by retry_with_backoff is invoked at most
\* max_attempts times; an attempt is followed by another invocation exactly
\* when it failed with an error satisfying the retryable predicate and fewer
\* than max_attempts attempts had been made; a non-retryable error ends the
\* call after that attempt (the error is re-raised) and a success ends it at
\* once.
C7_BoundedRetry ==
    /\ rt_calls <= rt_max
    /\ Len(rt_outcomes) <= rt_calls
    /\ \A i \in 1..Len(rt_outcomes) :
          (i < rt_calls \/ rt_pc = "sleeping") <=>
             (rt_outcomes[i] # OkOutcome /\ should_retry_exception(rt_outcomes[i])
                 /\ i < rt_max)
    /\ RTFinished =>
          /\ Len(rt_outcomes) = rt_calls
          /\ rt_pc = "returned" <=> LastOutcome = OkOutcome
          /\ rt_pc = "raised" <=>
                (LastOutcome # OkOutcome /\ ~should_retry_exception(LastOutcome))
          /\ rt_pc = "retry_error" <=>
                (LastOutcome # OkOutcome /\ should_retry_exception(LastOutcome)
                    /\ rt_calls = rt_max)

C7_Witness ==
    /\ rt_op = "generic" /\ rt_max = 3 /\ rt_calls = 3
    /\ rt_pc = "raised"
    /\ rt_outcomes[1].rstatus = 503 /\ rt_outcomes[2].net
    /\ LastOutcome.resp /\ LastOutcome.rstatus = 404

\* The transport failed transiently in the latest attempt
TransientFailure(r) == r \in TransportErrors \/ r \in {500, 502, 503, 504, 429}

\* C8 (as claimed): when the transport fails transiently, _make_request
\* performs the request again, so an error reaches the adapter after a
\* transient transport failure only once max_attempts (3) attempts are made.
C8_TransientRetried ==
    (rt_op = "request" /\ rt_pc \in {"raised", "retry_error"}
        /\ TransientFailure(rq_last)) => rt_calls = request_max_attempts

\* C20 (as claimed): when a request is answered 401 the credential is
\* invalidated and the same request is sent again, once, with a freshly
\* obtained credential; the call fails with the authentication error only
\* when the second answer is 401 as well.  get_company_details re-raises
\* whatever _make_request raises unless its status is 404, so the end of
\* _make_request is the end of the adapter's request.
C20_RetriedOnceOn401 ==
    (rt_op = "request" /\ RTFinished /\ rq_invalidated) =>
        /\ rq_requests >= 2
        /\ (rt_pc = "raised" /\ LastOutcome = AuthenticationError)
              => rq_requests = 2


\* INSEESireneAPI.get_legal_unit around self.get(): an APIError with status
\* 404 becomes the return value None, every other exception propagates
AdapterOutcome(out) ==
    IF out.cls \in {"APIError", "RateLimitError", "AuthenticationError"}
          /\ out.code = 404
    THEN OkOutcome ELSE out

\* CircuitBreaker.call around the adapter method (the breaker the decorator
\* registers expects Exception): _on_success for a return, _on_failure for
\* every exception, tenacity's RetryError included
BreakerRecords(pc, out) ==
    IF pc = "retry_error" THEN "failure"
    ELSE IF AdapterOutcome(out) = OkOutcome THEN "success" ELSE "failure"

\* The limiter denied the latest attempt: check_rate_limit raised before the
\* transport was reached
LimiterDenied ==
    rt_pc = "raised" /\ LastOutcome = RateLimitError /\ rq_last = NoAnswer

\* C28 (as claimed): within one provider call the rate limiter is consulted
\* exactly once, outside the retry loop, so that retry attempts consume no
\* further rate-limit budget, and a limiter denial is never recorded as a
\* circuit-breaker failure.
C28_LimiterOutsideRetry ==
    (rt_op = "request" /\ RTFinished) =>
        /\ rq_limiter = 1
        /\ LimiterDenied => BreakerRecords(rt_pc, LastOutcome) # "failure"

(***************************************************************************)
(* Profile orchestrator: CompanyProfileOrchestrator.get_complete_profile   *)
(* (tools/get_company_profile.py 39-145)                                   *)
(***************************************************************************)

\* Bounds of the profile model
NumPfTasks == 2
NumSirens == 1
MaxPfCalls == 3

PfTasks == 1..NumPfTasks
Sirens == 1..NumSirens
NoProfile == 0
\* Contents a fan-out may produce for a siren: the upstream data (and which
\* sources answered) can differ from one fan-out to the next
Contents == {1, 2}

PFInit ==
    /\ pf_cache = [s \in Sirens |-> NoProfile]
    /\ pf_pc = [t \in PfTasks |-> "idle"]
    /\ pf_siren = [t \in PfTasks |-> 1]
    /\ pf_local = [t \in PfTasks |-> NoProfile]
    /\ pf_result = [t \in PfTasks |-> NoProfile]
    /\ pf_fanned = [t \in PfTasks |-> FALSE]
    /\ pf_with = [t \in PfTasks |-> {}]
    /\ pf_fanouts = [s \in Sirens |-> 0]
    /\ pf_calls = 0

\* Calls past the cache lookup that have not returned yet
PfInFlight(u) == pf_pc[u] \in {"privacy", "prepare", "gather", "store", "audit"}

\* Mutant of CacheHit: the cache lookup always misses
CacheHit_never(s) == FALSE

\* line 50: cached_profile is truthy
CacheHit(s) == pf_cache[s] # NoProfile

\* lines 49-52: the call starts with the cache lookup; a hit returns the
\* cached contents, a miss goes on to the privacy check
PfCacheGet(t, s) ==
    /\ UNCHANGED notProfile
    /\ pf_pc[t] \in {"idle", "done"} /\ pf_calls < MaxPfCalls
    /\ pf_calls' = pf_calls + 1
    /\ pf_siren' = [pf_siren EXCEPT ![t] = s]
    /\ pf_local' = [pf_local EXCEPT ![t] = NoProfile]
    /\ pf_fanned' = [pf_fanned EXCEPT ![t] = FALSE]
    /\ IF CacheHit(s)
       THEN /\ pf_pc' = [pf_pc EXCEPT ![t] = "done"]
            /\ pf_result' = [pf_result EXCEPT ![t] = pf_cache[s]]
            /\ pf_with' = [pf_with EXCEPT ![t] = {}]
       ELSE /\ pf_pc' = [pf_pc EXCEPT ![t] = "privacy"]
            /\ pf_result' = [pf_result EXCEPT ![t] = NoProfile]
            /\ LET others == {u \in PfTasks \ {t} : PfInFlight(u) /\ pf_siren[u] = s}
               IN pf_with' = [u \in PfTasks |->
                                IF u = t THEN others
                                ELSE IF u \in others THEN pf_with[u] \cup {t}
                                ELSE pf_with[u] \ {t}]
    /\ UNCHANGED <<pf_cache, pf_fanouts>>

\* line 55: _check_privacy_status (an INSEE call of its own) has answered
PfPrivacy(t) ==
    /\ UNCHANGED notProfile
    /\ pf_pc[t] = "privacy"
    /\ pf_pc' = [pf_pc EXCEPT ![t] = "prepare"]
    /\ pf_fanned' = [pf_fanned EXCEPT ![t] = TRUE]
    /\ UNCHANGED <<pf_cache, pf_siren, pf_local, pf_result, pf_with, pf_fanouts, pf_calls>>

\* lines 57-90: the source calls are prepared and issued with asyncio.gather
PfFanout(t) ==
    /\ UNCHANGED notProfile
    /\ pf_pc[t] = "prepare"
    /\ pf_pc' = [pf_pc EXCEPT ![t] = "gather"]
    /\ pf_fanouts' = [pf_fanouts EXCEPT ![pf_siren[t]] = @ + 1]
    /\ UNCHANGED <<pf_cache, pf_siren, pf_local, pf_result, pf_fanned, pf_with, pf_calls>>

\* lines 90-120: the sources have answered; merge, privacy filter, output
PfGathered(t, c) ==
    /\ UNCHANGED notProfile
    /\ pf_pc[t] = "gather"
    /\ pf_local' = [pf_local EXCEPT ![t] = c]
    /\ pf_pc' = [pf_pc EXCEPT ![t] = "store"]
    /\ UNCHANGED <<pf_cache, pf_siren, pf_result, pf_fanned, pf_with, pf_fanouts, pf_calls>>

\* lines 122-127: set_company_profile(siren, output)
PfCacheSet(t) ==
    /\ UNCHANGED notProfile
    /\ pf_pc[t] = "store"
    /\ pf_cache' = [pf_cache EXCEPT ![pf_siren[t]] = pf_local[t]]
    /\ pf_pc' = [pf_pc EXCEPT ![t] = "audit"]
    /\ UNCHANGED <<pf_siren, pf_local, pf_result, pf_fanned, pf_with, pf_fanouts, pf_calls>>

\* lines 129-145: audit record written, output returned
PfReturn(t) ==
    /\ UNCHANGED notProfile
    /\ pf_pc[t] = "audit"
    /\ pf_result' = [pf_result EXCEPT ![t] = pf_local[t]]
    /\ pf_pc' = [pf_pc EXCEPT ![t] = "done"]
    /\ UNCHANGED <<pf_cache, pf_siren, pf_local, pf_fanned, pf_with, pf_fanouts, pf_calls>>

NextProfile ==
    \/ \E t \in PfTasks, s \in Sirens : PfCacheGet(t, s)
    \/ \E t \in PfTasks : PfPrivacy(t)
    \/ \E t \in PfTasks : PfFanout(t)
    \/ \E t \in PfTasks, c \in Contents : PfGathered(t, c)
    \/ \E t \in PfTasks : PfCacheSet(t)
    \/ \E t \in PfTasks : PfReturn(t)

(***************************************************************************)
(* Properties of the profile orchestrator                                  *)
(***************************************************************************)

\* C9 (as claimed): two concurrent profile requests for the same siren that
\* both find the cache empty result in a single set of upstream calls (the
\* second awaits the first instead of issuing its own) and both callers
\* receive the same contents.
C9_SingleFlight ==
    \A t \in PfTasks, u \in PfTasks :
        (t # u /\ pf_pc[t] = "done" /\ pf_pc[u] = "done"
            /\ u \in pf_with[t] /\ t \in pf_with[u]) =>
                /\ ~(pf_fanned[t] /\ pf_fanned[u])
                /\ pf_result[t] = pf_result[u]

(***************************************************************************)
(* Analytic store: DuckDBCache._load_parquet_sync                          *)
(* (cache/duckdb_cache.py 144-190), run on the single worker thread        *)
(***************************************************************************)

\* Bounds of the load model
NumFiles == 2
MaxLoads == 3

\* A table's contents are identified by the file they were loaded from;
\* EmptyTable is the table as _initialize_schema creates it
Files == 1..NumFiles
Missing == -1
EmptyTable == 0
NoTxn == <<>>

\* Rows in a file / in a table with these contents
RowCount(c) == IF c = EmptyTable THEN 0 ELSE 100 * c

LDInit ==
    /\ ld_table = EmptyTable
    /\ ld_staging = Missing
    /\ ld_old = Missing
    /\ ld_meta = 0
    /\ ld_txn = NoTxn
    /\ ld_pc = "idle"
    /\ ld_file = 0
    /\ ld_count = 0
    /\ ld_before = EmptyTable
    /\ ld_result = "none"
    /\ ld_failed_at = "none"
    /\ ld_calls = 0

\* load_parquet(file_path, table_name) is called (134-150)
LoadCall(f) ==
    /\ UNCHANGED notLoad
    /\ ld_pc \in {"idle", "done"} /\ ld_calls < MaxLoads
    /\ ld_calls' = ld_calls + 1
    /\ ld_file' = f
    /\ ld_before' = ld_table
    /\ ld_count' = 0
    /\ ld_result' = "none"
    /\ ld_failed_at' = "none"
    /\ ld_pc' = "create_staging"
    /\ UNCHANGED <<ld_table, ld_staging, ld_old, ld_meta, ld_txn>>

\* lines 153-161: CREATE OR REPLACE TABLE <table>_staging AS SELECT * FROM
\* parquet_scan(file); count = SELECT COUNT(*) FROM <table>_staging
LdCreateStaging ==
    /\ UNCHANGED notLoad
    /\ ld_pc = "create_staging"
    /\ ld_staging' = ld_file
    /\ ld_count' = RowCount(ld_file)
    /\ ld_pc' = "begin"
    /\ UNCHANGED <<ld_table, ld_old, ld_meta, ld_txn, ld_file, ld_before, ld_result,
                   ld_failed_at, ld_calls>>

\* line 164: BEGIN
LdBegin ==
    /\ UNCHANGED notLoad
    /\ ld_pc = "begin"
    /\ ld_txn' = <<ld_table, ld_staging, ld_old>>
    /\ ld_pc' = "drop_old"
    /\ UNCHANGED <<ld_table, ld_staging, ld_old, ld_meta, ld_file, ld_count, ld_before,
                   ld_result, ld_failed_at, ld_calls>>

\* line 165: DROP TABLE IF EXISTS <table>_old
LdDropOld ==
    /\ UNCHANGED notLoad
    /\ ld_pc = "drop_old"
    /\ ld_old' = Missing
    /\ ld_pc' = "rename_old"
    /\ UNCHANGED <<ld_table, ld_staging, ld_meta, ld_txn, ld_file, ld_count, ld_before,
                   ld_result, ld_failed_at, ld_calls>>

\* line 166: ALTER TABLE <table> RENAME TO <table>_old
LdRenameToOld ==
    /\ UNCHANGED notLoad
    /\ ld_pc = "rename_old" /\ ld_table # Missing
    /\ ld_old' = ld_table
    /\ ld_table' = Missing
    /\ ld_pc' = "rename_staging"
    /\ UNCHANGED <<ld_staging, ld_meta, ld_txn, ld_file, ld_count, ld_before,
                   ld_result, ld_failed_at, ld_calls>>

\* line 167: ALTER TABLE <table>_staging RENAME TO <table>
LdRenameStaging ==
    /\ UNCHANGED notLoad
    /\ ld_pc = "rename_staging"
    /\ ld_table' = ld_staging
    /\ ld_staging' = Missing
    /\ ld_pc' = "commit"
    /\ UNCHANGED <<ld_old, ld_meta, ld_txn, ld_file, ld_count, ld_before,
                   ld_result, ld_failed_at, ld_calls>>

\* line 168: COMMIT
LdCommit ==
    /\ UNCHANGED notLoad
    /\ ld_pc = "commit"
    /\ ld_txn' = NoTxn
    /\ ld_pc' = "metadata"
    /\ UNCHANGED <<ld_table, ld_staging, ld_old, ld_meta, ld_file, ld_count, ld_before,
                   ld_result, ld_failed_at, ld_calls>>

\* lines 171-183: INSERT OR REPLACE INTO cache_metadata; commit(); return count
LdMetadata ==
    /\ UNCHANGED notLoad
    /\ ld_pc = "metadata"
    /\ ld_meta' = ld_count
    /\ ld_result' = "ok"
    /\ ld_pc' = "done"
    /\ UNCHANGED <<ld_table, ld_staging, ld_old, ld_txn, ld_file, ld_count, ld_before,
                   ld_failed_at, ld_calls>>

\* Statements of the try block
LdStatements == {"create_staging", "begin", "drop_old", "rename_old",
                 "rename_staging", "commit", "metadata"}

\* The statement at hand raises (unreadable or broken file, engine or I/O
\* error): a failed statement changes nothing by itself; control goes to the
\* except clause (line 185)
LdStatementFails ==
    /\ UNCHANGED notLoad
    /\ ld_pc \in LdStatements
    /\ ld_failed_at' = ld_pc
    /\ ld_pc' = "except"
    /\ UNCHANGED <<ld_table, ld_staging, ld_old, ld_meta, ld_txn, ld_file, ld_count,
                   ld_before, ld_result, ld_calls>>

\* What ROLLBACK restores: the snapshot of the open transaction, nothing when
\* no transaction is open
RolledBack(cur, i) == IF ld_txn = NoTxn THEN cur ELSE ld_txn[i]

\* lines 185-190: self._conn.rollback(); raise
LdExcept ==
    /\ UNCHANGED notLoad
    /\ ld_pc = "except"
    /\ ld_table' = RolledBack(ld_table, 1)
    /\ ld_staging' = RolledBack(ld_staging, 2)
    /\ ld_old' = RolledBack(ld_old, 3)
    /\ ld_txn' = NoTxn
    /\ ld_result' = "error"
    /\ ld_pc' = "done"
    /\ UNCHANGED <<ld_meta, ld_file, ld_count, ld_before, ld_failed_at, ld_calls>>

NextLoad ==
    \/ \E f \in Files : LoadCall(f)
    \/ LdCreateStaging
    \/ LdBegin
    \/ LdDropOld
    \/ LdRenameToOld
    \/ LdRenameStaging
    \/ LdCommit
    \/ LdMetadata
    \/ LdStatementFails
    \/ LdExcept

(***************************************************************************)
(* Properties of the analytic store                                        *)
(***************************************************************************)

\* C10 (as claimed): load_parquet is all-or-nothing: when it returns a count
\* the table holds the rows of the new file and the count is their number;
\* when it fails at any step (reading the file, the swap, recording the
\* metadata) the table holds the rows it held before the call; between calls
\* the table is never missing.
C10_AllOrNothing ==
    ld_pc = "done" =>
        /\ ld_table # Missing
        /\ ld_result = "ok" => (ld_table = ld_file /\ ld_count = RowCount(ld_table))
        /\ ld_result = "error" => ld_table = ld_before

\* C11 (as claimed): when load_parquet fails at any step, no <table>_staging
\* table remains in the store once it has returned.
C11_NoStagingAfterFailure ==
    (ld_pc = "done" /\ ld_result = "error") => ld_staging = Missing

(***************************************************************************)
(* Pipeline scheduler: ScheduledJob.run, PipelineScheduler._scheduler_loop,*)
(* run_job_now, force_update_all (pipeline/scheduler.py)                   *)
(***************************************************************************)

\* Bounds of the scheduler model
NumJobs == 2
MaxTriggers == 3

Jobs == 1..NumJobs
\* Who called job.run(): a task created by the loop, run_job_now, or
\* force_update_all
Owners == {"tick", "manual", "force"}

\* Runs of job j that are inside task_func
Executing(j) == sj_exec[j]["tick"] + sj_exec[j]["manual"] + sj_exec[j]["force"]

SJInit ==
    /\ sj_running = [j \in Jobs |-> FALSE]
    /\ sj_due = [j \in Jobs |-> FALSE]
    /\ sj_pending = [j \in Jobs |-> 0]
    /\ sj_exec = [j \in Jobs |-> [o \in Owners |-> 0]]
    /\ sj_force = 0
    /\ sj_last = {}
    /\ sj_triggers = 0
    /\ sj_last_run = [j \in Jobs |-> 0]

\* Mutant of IsRunning: run() without the is_running guard
IsRunning_never(j) == FALSE

\* ScheduledJob.run line 47: self.is_running
IsRunning(j) == sj_running[j]

\* ScheduledJob.should_run_now (70-78)
ShouldRunNow(j) == ~sj_running[j] /\ sj_due[j]

\* What one call of job.run() reports: the job, whether a run of it was
\* inside task_func at that moment, and what the call did
RunRecord(j, res) == [job |-> j, busy |-> Executing(j) > 0, result |-> res]

\* ScheduledJob.run lines 47-56 for owner o: skipped when is_running, else
\* is_running is set and task_func is awaited.  No await separates the test
\* from the assignment.
RunJob(j, o) ==
    IF IsRunning(j)
    THEN /\ sj_last' = {RunRecord(j, "skipped")}
         /\ UNCHANGED <<sj_running, sj_exec, sj_last_run>>
    ELSE /\ sj_last' = {RunRecord(j, "started")}
         /\ sj_running' = [sj_running EXCEPT ![j] = TRUE]
         /\ sj_last_run' = [sj_last_run EXCEPT ![j] = 1 - @]
         /\ sj_exec' = [sj_exec EXCEPT ![j][o] = @ + 1]

\* The clock reaches next_run of job j
JobBecomesDue(j) ==
    /\ UNCHANGED notSched
    /\ ~sj_due[j]
    /\ sj_due' = [sj_due EXCEPT ![j] = TRUE]
    /\ UNCHANGED <<sj_running, sj_pending, sj_exec, sj_force, sj_last, sj_triggers,
                   sj_last_run>>

\* _scheduler_loop lines 162-171: one pass over the jobs, a task is created
\* for each job that should run now; the pass happens every 60 s, after the
\* tasks created by the previous pass have started
SchedulerTick ==
    /\ UNCHANGED notSched
    /\ \A j \in Jobs : sj_pending[j] = 0
    /\ \E j \in Jobs : ShouldRunNow(j)
    /\ sj_pending' = [j \in Jobs |-> IF ShouldRunNow(j) THEN 1 ELSE 0]
    /\ sj_last' = {}
    /\ UNCHANGED <<sj_running, sj_due, sj_exec, sj_force, sj_triggers, sj_last_run>>

\* _run_job (179-186): the task created by the loop starts and calls job.run()
TickTaskStarts(j) ==
    /\ UNCHANGED notSched
    /\ sj_pending[j] > 0
    /\ sj_pending' = [sj_pending EXCEPT ![j] = @ - 1]
    /\ RunJob(j, "tick")
    /\ UNCHANGED <<sj_due, sj_force, sj_triggers>>

\* run_job_now (188-194)
RunJobNow(j) ==
    /\ UNCHANGED notSched
    /\ sj_triggers < MaxTriggers
    /\ sj_triggers' = sj_triggers + 1
    /\ RunJob(j, "manual")
    /\ UNCHANGED <<sj_due, sj_pending, sj_force>>

\* First job from j on whose run() does not return 'skipped' at once
RECURSIVE NextRunnable(_)
NextRunnable(j) ==
    IF j > NumJobs THEN j
    ELSE IF IsRunning(j) THEN NextRunnable(j + 1)
    ELSE j

\* force_update_all (206-222) from job j on: run() of a running job returns
\* 'skipped' without suspending, so the loop goes on until a run suspends in
\* task_func or the jobs are exhausted.  run is the running flags and ex the
\* executing runs the loop starts from.
ForceFrom(j, run, ex) ==
    LET k == NextRunnable(j)
        skipped == {RunRecord(i, "skipped") : i \in j..(k - 1)}
    IN IF k > NumJobs
       THEN /\ sj_force' = 0
            /\ sj_last' = skipped
            /\ sj_running' = run
            /\ sj_exec' = ex
            /\ UNCHANGED sj_last_run
       ELSE /\ sj_force' = k
            /\ sj_last' = skipped \cup {RunRecord(k, "started")}
            /\ sj_running' = [run EXCEPT ![k] = TRUE]
            /\ sj_last_run' = [sj_last_run EXCEPT ![k] = 1 - @]
            /\ sj_exec' = [ex EXCEPT ![k]["force"] = @ + 1]

\* force_update_all is called
ForceUpdateAll ==
    /\ UNCHANGED notSched
    /\ sj_force = 0 /\ sj_triggers < MaxTriggers
    /\ sj_triggers' = sj_triggers + 1
    /\ ForceFrom(1, sj_running, sj_exec)
    /\ UNCHANGED <<sj_due, sj_pending>>

\* A run whose end leaves is_running as it was
FinallyIsRunning_kept(flag) == flag

\* ScheduledJob.run lines 66-67, the finally clause: self.is_running = False
FinallyIsRunning(flag) == FALSE

\* ScheduledJob.run lines 57-68: task_func of a run of job j by owner o
\* returns, raises, or the run is cancelled; the finally clause clears
\* is_running and recomputes next_run.  A run of force_update_all that
\* returned or raised is followed by the rest of its loop.
RunEnds(j, o, how) ==
    /\ UNCHANGED notSched
    /\ sj_exec[j][o] > 0
    /\ sj_due' = [sj_due EXCEPT ![j] = FALSE]
    /\ LET run == [sj_running EXCEPT ![j] = FinallyIsRunning(@)]
           ex == [sj_exec EXCEPT ![j][o] = @ - 1]
       IN IF o = "force" /\ how # "cancelled"
          THEN ForceFrom(j + 1, run, ex)
          ELSE /\ sj_running' = run
               /\ sj_exec' = ex
               /\ sj_last' = {}
               /\ sj_force' = IF o = "force" THEN 0 ELSE sj_force
               /\ UNCHANGED sj_last_run
    /\ UNCHANGED <<sj_pending, sj_triggers>>

RunEndings == {"result", "error", "cancelled"}

NextSched ==
    \/ \E j \in Jobs : JobBecomesDue(j)
    \/ SchedulerTick
    \/ \E j \in Jobs : TickTaskStarts(j)
    \/ \E j \in Jobs : RunJobNow(j)
    \/ ForceUpdateAll
    \/ \E j \in Jobs, o \in Owners, how \in RunEndings : RunEnds(j, o, how)

(***************************************************************************)
(* Properties of the pipeline scheduler                                    *)
(***************************************************************************)

\* C12: for every job at most one run is inside task_func at any time,
\* whatever the interleaving of scheduler ticks, run_job_now and
\* force_update_all; a job.run() call made while a run of the job is
\* executing returns 'skipped' and starts nothing.
C12_NoOverlap ==
    /\ \A j \in Jobs : Executing(j) <= 1
    /\ \A j \in Jobs : Executing(j) = 1 => sj_running[j]
    /\ \A r \in sj_last : r.busy => r.result = "skipped"

C12_Witness ==
    \E r \in sj_last :
        /\ r.busy /\ r.result = "skipped"
        /\ Executing(r.job) = 1
        /\ sj_exec[r.job]["tick"] = 1

\* The step ends a run of job j
RunEndsStep(j) == Executing(j)' < Executing(j)

\* The step holds calls of job.run(): a task of the loop starts, run_job_now
\* or force_update_all is called, or force_update_all goes on with its loop
TriggerStep ==
    \/ sj_triggers' # sj_triggers
    \/ \E j \in Jobs : sj_pending'[j] < sj_pending[j]
    \/ \E j \in Jobs : sj_exec'[j]["force"] < sj_exec[j]["force"]

\* The scheduler loop and the event loop keep going: the clock reaches
\* next_run, the loop makes its pass every 60 s, a created task is started,
\* and every run ends
SchedFairness ==
    /\ WF_vars(SchedulerTick)
    /\ \A j \in Jobs :
          /\ WF_vars(JobBecomesDue(j))
          /\ WF_vars(TickTaskStarts(j))
          /\ WF_vars(\E o \in Owners, how \in RunEndings : RunEnds(j, o, how))

NumFlushers == 2
MaxEntries == 3
MaxSeconds == 1

\* AuditLogger._buffer_size (100 in the source, scaled)
buffer_size == 2

\* Flusher 1 is the periodic task (and stop()); the others are log_access
\* callers whose append filled the buffer
Flushers == 1..NumFlushers
PeriodicFlusher == 1
Seconds == 0..MaxSeconds
\* No file of that name exists
NoFile == <<0>>

AUInit ==
    /\ au_buffer = <<>>
    /\ au_files = [sec \in Seconds |-> NoFile]
    /\ au_now = 0
    /\ au_pc = [f \in Flushers |-> "idle"]
    /\ au_file = [f \in Flushers |-> 0]
    /\ au_idx = [f \in Flushers |-> 0]
    /\ au_sealed = [sec \in Seconds |-> NoFile]
    /\ au_logged = 0

\* _flush_buffer lines 254-263 by flusher f on buffer buf: nothing when the
\* buffer is empty; otherwise the file named after the current second is
\* opened with mode "w" (created, or truncated if it exists)
FlushOpen(f, buf) ==
    IF buf = <<>>
    THEN UNCHANGED <<au_files, au_pc, au_file, au_idx>>
    ELSE /\ au_files' = [au_files EXCEPT ![au_now] = <<>>]
         /\ au_pc' = [au_pc EXCEPT ![f] = "writing"]
         /\ au_file' = [au_file EXCEPT ![f] = au_now]
         /\ au_idx' = [au_idx EXCEPT ![f] = 1]

\* log_access (75-121) without a flush: the entry is appended and the buffer
\* stays below _buffer_size
LogAccess ==
    /\ UNCHANGED notAudit
    /\ au_logged < MaxEntries
    /\ Len(au_buffer) + 1 < buffer_size
    /\ au_logged' = au_logged + 1
    /\ au_buffer' = Append(au_buffer, au_logged + 1)
    /\ UNCHANGED <<au_files, au_now, au_pc, au_file, au_idx, au_sealed>>

\* log_access (75-121) when the append fills the buffer: the caller f goes
\* on into _flush_buffer
LogAccessFlush(f) ==
    /\ UNCHANGED notAudit
    /\ f # PeriodicFlusher /\ au_pc[f] = "idle"
    /\ au_logged < MaxEntries
    /\ Len(au_buffer) + 1 >= buffer_size
    /\ au_logged' = au_logged + 1
    /\ au_buffer' = Append(au_buffer, au_logged + 1)
    /\ FlushOpen(f, Append(au_buffer, au_logged + 1))
    /\ UNCHANGED <<au_now, au_sealed>>

\* _periodic_flush (277-287) after its sleep, or stop() (69-71): flush when
\* the buffer is not empty
PeriodicFlush ==
    /\ UNCHANGED notAudit
    /\ au_pc[PeriodicFlusher] = "idle"
    /\ au_buffer # <<>>
    /\ FlushOpen(PeriodicFlusher, au_buffer)
    /\ UNCHANGED <<au_buffer, au_now, au_sealed, au_logged>>

\* lines 264-265: one step of "for entry in self._buffer: await f.write(..)";
\* the loop sees the buffer as it is now and ends when its position is past
\* the end, then the file is closed (the exit of "async with" is awaited)
FlushWrite(f) ==
    /\ UNCHANGED notAudit
    /\ au_pc[f] = "writing"
    /\ IF au_idx[f] <= Len(au_buffer)
       THEN /\ au_files' = [au_files EXCEPT ![au_file[f]] =
                               Append(IF @ = NoFile THEN <<>> ELSE @, au_buffer[au_idx[f]])]
            /\ au_idx' = [au_idx EXCEPT ![f] = @ + 1]
            /\ UNCHANGED au_pc
       ELSE /\ au_pc' = [au_pc EXCEPT ![f] = "closing"]
            /\ UNCHANGED <<au_files, au_idx>>
    /\ UNCHANGED <<au_buffer, au_now, au_file, au_sealed, au_logged>>

\* lines 267-272: the file is closed; the buffer is cleared
FlushDone(f) ==
    /\ UNCHANGED notAudit
    /\ au_pc[f] = "closing"
    /\ au_buffer' = <<>>
    /\ au_pc' = [au_pc EXCEPT ![f] = "idle"]
    /\ au_sealed' = [au_sealed EXCEPT ![au_file[f]] =
                        IF @ = NoFile THEN au_files[au_file[f]] ELSE @]
    /\ UNCHANGED <<au_files, au_now, au_file, au_idx, au_logged>>

\* lines 274-275: open, a write or the close raises; the error is logged and
\* the buffer is left as it is
FlushFails(f) ==
    /\ UNCHANGED notAudit
    /\ au_pc[f] \in {"writing", "closing"}
    /\ au_pc' = [au_pc EXCEPT ![f] = "idle"]
    /\ UNCHANGED <<au_buffer, au_files, au_now, au_file, au_idx, au_sealed, au_logged>>

\* The wall clock moves to the next second
AuTick ==
    /\ UNCHANGED notAudit
    /\ au_now < MaxSeconds
    /\ au_now' = au_now + 1
    /\ UNCHANGED <<au_buffer, au_files, au_pc, au_file, au_idx, au_sealed, au_logged>>

NextAudit ==
    \/ LogAccess
    \/ \E f \in Flushers : LogAccessFlush(f)
    \/ PeriodicFlush
    \/ \E f \in Flushers : FlushWrite(f)
    \/ \E f \in Flushers : FlushDone(f)
    \/ \E f \in Flushers : FlushFails(f)
    \/ AuTick

(***************************************************************************)
(* Properties of the audit logger                                          *)
(***************************************************************************)

\* C13 (as claimed): a flush file, once a flush has written it, is never
\* modified, truncated or overwritten by a later flush: its lines stay what
\* they were when the flush that created it ended.
C13_FlushFilesImmutable ==
    \A sec \in Seconds :
        au_sealed[sec] # NoFile => au_files[sec] = au_sealed[sec]

\* The entries log_access has been passed so far
Logged == 1..au_logged

\* The lines of a sequence of entries
Lines(entries) == {entries[i] : i \in DOMAIN entries}

\* The flush files that hold entry e
FilesHolding(e) ==
    {sec \in Seconds : au_files[sec] # NoFile /\ e \in Lines(au_files[sec])}

\* No _flush_buffer is in progress
NoFlushInProgress == \A f \in Flushers : au_pc[f] = "idle"

\* C31 (as claimed): absent a crash, every entry passed to log_access ends
\* up in exactly one place, still in the buffer or in exactly one flush
\* file: once no flush is in progress no entry is lost and none is in two
\* files, whatever the interleaving of log_access calls, size-triggered
\* flushes, the periodic flush and stop().
C31_EveryEntryInOnePlace ==
    NoFlushInProgress =>
        \A e \in Logged :
            /\ e \in Lines(au_buffer) \/ FilesHolding(e) # {}
            /\ Cardinality(FilesHolding(e)) <= 1

(***************************************************************************)
(* Privacy filter: PrivacyFilter of privacy/filters.py                     *)
(*                                                                         *)
(* A dict is a function from its keys to its values; a pydantic object is  *)
(* represented by the dict of its declared fields.  A string that the code *)
(* slices (a date) is the sequence of its characters.  The key of a value  *)
(* fixes its Python type: "address" holds a dict, "executives" and         *)
(* "establishments" hold lists of dicts, every other key holds a scalar.   *)
(***************************************************************************)

\* Bounds
MaxExecutives == 1
MaxEstablishments == 1

\* None, as returned by dict.get for an absent key
NoneValue == "None"

EmptyDict == <<>>

DictKeys == {"address"}
ListKeys == {"executives", "establishments"}

\* "1970-05-15" and "1970-05"
FullDate == <<"1", "9", "7", "0", "-", "0", "5", "-", "1", "5">>
YearMonth == <<"1", "9", "7", "0", "-", "0", "5">>

\* The length of "YYYY-MM"
YearMonthLen == 7

\* PrivacyFilter._initialize_rules
rules ==
    << [name |-> "mask_protected_addresses",
        condition |-> "privacy_status", condition_value |-> "P",
        fields_to_remove |-> {"street", "latitude", "longitude"},
        fields_to_mask |-> {},
        applies_to |-> {"Company", "CompanySearchResult", "Establishment"}],
       [name |-> "remove_birth_details",
        condition |-> "is_individual", condition_value |-> TRUE,
        fields_to_remove |-> {"birth_date", "birth_place"},
        fields_to_mask |-> {"birth_date"},
        applies_to |-> {"Executive", "BeneficialOwner"}],
       [name |-> "insee_diffusion_protected",
        condition |-> "statut_diffusion", condition_value |-> "P",
        fields_to_remove |-> {"voie", "numVoie", "latitude", "longitude"},
        fields_to_mask |-> {},
        applies_to |-> {"Company", "Establishment"}],
       [name |-> "executive_privacy",
        condition |-> "person_type", condition_value |-> "PHYSIQUE",
        fields_to_remove |-> {"date_naissance_complete", "lieu_naissance"},
        fields_to_mask |-> {"date_naissance"},
        applies_to |-> {"Executive", "Representative"}] >>

\* dict.get(key): the value, or None when the key is absent
Get(data, key) == IF key \in DOMAIN data THEN data[key] ELSE NoneValue

\* data restricted to the keys in keep
Restrict(data, keep) == [k \in DOMAIN data \cap keep |-> data[k]]

\* original_value[:7] drops the first character instead of the tail
MaskYearMonth_shift(original_value) ==
    IF Len(original_value) >= YearMonthLen
    THEN SubSeq(original_value, 2, Len(original_value))
    ELSE original_value

\* The "YYYY-MM" mask of _apply_rule_to_dict on a string: original_value[:7]
\* when the string has at least seven characters, else the string unchanged
MaskYearMonth(original_value) ==
    IF Len(original_value) >= YearMonthLen
    THEN SubSeq(original_value, 1, YearMonthLen)
    ELSE original_value

\* rule.condition in data and data.get(rule.condition) == rule.condition_value
ConditionMet(data, rule) ==
    /\ rule.condition \in DOMAIN data
    /\ data[rule.condition] = rule.condition_value

\* PrivacyFilter._apply_rule_to_dict: when the rule's condition is a key of
\* this very dict with the rule's value, remove the fields, then mask the
\* ones still present and truthy, then apply the rule to the nested dicts and
\* to the items of the nested lists; otherwise return the dict untouched
RECURSIVE ApplyRuleToDict(_, _)
ApplyRuleToDict(data, rule) ==
    IF ~ConditionMet(data, rule)
    THEN data
    ELSE LET removed == Restrict(data, DOMAIN data \ rule.fields_to_remove)
             masked == [k \in DOMAIN removed |->
                           IF k \in rule.fields_to_mask /\ Len(removed[k]) > 0
                           THEN MaskYearMonth(removed[k])
                           ELSE removed[k]]
         IN [k \in DOMAIN masked |->
                IF k \in DictKeys
                THEN ApplyRuleToDict(masked[k], rule)
                ELSE IF k \in ListKeys
                THEN [i \in DOMAIN masked[k] |->
                         ApplyRuleToDict(masked[k][i], rule)]
                ELSE masked[k]]

\* The fields pydantic keeps when it builds each model (models/company.py)
AddressFields == {"street", "postal_code", "city", "latitude", "longitude"}
ExecutiveFields == {"role", "name", "first_name", "birth_date", "nationality"}
EstablishmentFields ==
    {"siret", "is_headquarters", "address", "employee_range", "activity"}
CompanyFields ==
    {"siren", "denomination", "address", "executives", "establishments",
     "privacy_status"}

\* Company(**merged) and Company.parse_obj: every model keeps its declared
\* fields only, nested models included
ParseCompany(data) ==
    [k \in DOMAIN data \cap CompanyFields |->
        IF k = "address" THEN Restrict(data[k], AddressFields)
        ELSE IF k = "executives"
        THEN [i \in DOMAIN data[k] |-> Restrict(data[k][i], ExecutiveFields)]
        ELSE IF k = "establishments"
        THEN [i \in DOMAIN data[k] |->
                 [f \in DOMAIN data[k][i] \cap EstablishmentFields |->
                     IF f = "address"
                     THEN Restrict(data[k][i][f], AddressFields)
                     ELSE data[k][i][f]]]
        ELSE data[k]]

\* PrivacyFilter._apply_rule: a dict goes to _apply_rule_to_dict; a pydantic
\* object is dumped to a dict, filtered, and rebuilt with parse_obj
ApplyRule(data, rule, is_model) ==
    IF is_model
    THEN ParseCompany(ApplyRuleToDict(data, rule))
    ELSE ApplyRuleToDict(data, rule)

\* The loop of apply_filters from rule i on: each rule whose applies_to
\* holds the model type is applied, in the order of the list
RECURSIVE ApplyRulesFrom(_, _, _, _)
ApplyRulesFrom(data, model_type, is_model, i) ==
    IF i > Len(rules)
    THEN data
    ELSE ApplyRulesFrom(IF model_type \in rules[i].applies_to
                        THEN ApplyRule(data, rules[i], is_model)
                        ELSE data,
                        model_type, is_model, i + 1)

\* PrivacyFilter.apply_filters on a dict, and the module's convenience
\* function apply_privacy_filters, which only forwards to it
apply_filters(data, model_type) == ApplyRulesFrom(data, model_type, FALSE, 1)

\* apply_filters on a Company object
apply_filters_model(company) == ApplyRulesFrom(company, "Company", TRUE, 1)

\* PrivacyFilter._filter_address on a dict: postal code and city only
FilterAddress(address) ==
    [k \in {"postal_code", "city"} |-> Get(address, k)]

\* PrivacyFilter.filter_company on a dict
filter_company(company) ==
    LET filtered == apply_filters(company, "Company")
    IN [k \in DOMAIN filtered |->
           IF k = "executives"
           THEN [i \in DOMAIN filtered[k] |->
                    apply_filters(filtered[k][i], "Executive")]
           ELSE IF k = "establishments"
           THEN [i \in DOMAIN filtered[k] |->
                    apply_filters(filtered[k][i], "Establishment")]
           ELSE IF k = "address" /\ Get(filtered, "privacy_status") = "P"
           THEN FilterAddress(filtered[k])
           ELSE filtered[k]]

\* The entry points of the redactor: filter_company and apply_privacy_filters
\* on a company dict, apply_filters on an executive dict, and the profile tool,
\* which builds a Company object and hands it to apply_privacy_filters
CompanyPaths == {"filter_company", "apply_privacy_filters", "profile"}
Paths == CompanyPaths \cup {"executive"}

Redact(path, data) ==
    CASE path = "filter_company" -> filter_company(data)
      [] path = "apply_privacy_filters" -> apply_filters(data, "Company")
      [] path = "profile" -> apply_filters_model(data)
      [] path = "executive" -> apply_filters(data, "Executive")

\* ----- the entities the caller may hand in -----
FullAddress ==
    [street |-> "12 rue Secrete", postal_code |-> "75001", city |-> "Paris",
     latitude |-> "48.8566", longitude |-> "2.3522"]
PlainAddress == [postal_code |-> "75001", city |-> "Paris"]
Addresses == {FullAddress, PlainAddress}

\* How an executive dict says that it is a natural person
PersonMarkers == {"none", "physique", "morale", "individual"}
MarkerFields(m) ==
    CASE m = "none" -> EmptyDict
      [] m = "physique" -> [person_type |-> "PHYSIQUE"]
      [] m = "morale" -> [person_type |-> "MORALE"]
      [] m = "individual" -> [is_individual |-> TRUE]

\* The birth details of the INPI format
BirthExtras ==
    [date_naissance |-> FullDate, date_naissance_complete |-> FullDate,
     lieu_naissance |-> "Paris", birth_place |-> "Paris"]

ExecutiveDict(birth, m, extras) ==
    [role |-> "CEO", name |-> "Dupont", birth_date |-> birth]
        @@ MarkerFields(m) @@ (IF extras THEN BirthExtras ELSE EmptyDict)

Executives ==
    {ExecutiveDict(b, m, x) :
        b \in {FullDate, YearMonth}, m \in PersonMarkers, x \in BOOLEAN}

Establishments ==
    {[siret |-> "12345678900001", address |-> a] @@ p :
        a \in Addresses, p \in {EmptyDict, [privacy_status |-> "P"]}}

\* The lists of at most n items of S
ListsOf(S, n) == UNION {[1..k -> S] : k \in 0..n}

Companies ==
    {[siren |-> "123456789", denomination |-> "TEST", privacy_status |-> p,
      address |-> a, executives |-> ex, establishments |-> es] :
        p \in {"P", "O"}, a \in Addresses,
        ex \in ListsOf(Executives, MaxExecutives),
        es \in ListsOf(Establishments, MaxEstablishments)}

\* What a caller of the path hands in: dicts for the dict entry points, the
\* Company object built from the merged dict for the profile tool
InputsOf(path) ==
    CASE path = "executive" -> Executives
      [] path = "profile" -> {ParseCompany(c) : c \in Companies}
      [] OTHER -> Companies

PVInit ==
    /\ pv_pc = "idle"
    /\ pv_path = "none"
    /\ pv_input = EmptyDict
    /\ pv_out = EmptyDict
    /\ pv_again = EmptyDict

\* A caller picks an entry point and an entity
PvChoose ==
    /\ UNCHANGED notPrivacy
    /\ pv_pc = "idle"
    /\ \E path \in Paths : \E data \in InputsOf(path) :
          /\ pv_path' = path
          /\ pv_input' = data
    /\ pv_pc' = "chosen"
    /\ UNCHANGED <<pv_out, pv_again>>

\* The redactor runs on the entity
PvRedact ==
    /\ UNCHANGED notPrivacy
    /\ pv_pc = "chosen"
    /\ pv_pc' = "redacted"
    /\ pv_out' = Redact(pv_path, pv_input)
    /\ UNCHANGED <<pv_path, pv_input, pv_again>>

\* The redactor runs again, on its own result
PvRedactAgain ==
    /\ UNCHANGED notPrivacy
    /\ pv_pc = "redacted"
    /\ pv_pc' = "again"
    /\ pv_again' = Redact(pv_path, pv_out)
    /\ UNCHANGED <<pv_path, pv_input, pv_out>>

\* The caller is done with the entity
PvDone ==
    /\ UNCHANGED notPrivacy
    /\ pv_pc = "again"
    /\ pv_pc' = "idle"
    /\ pv_path' = "none"
    /\ pv_input' = EmptyDict
    /\ pv_out' = EmptyDict
    /\ pv_again' = EmptyDict

NextPrivacy ==
    \/ PvChoose
    \/ PvRedact
    \/ PvRedactAgain
    \/ PvDone

(***************************************************************************)
(* Properties of the privacy filter                                        *)
(***************************************************************************)

\* The addresses of a company: its own and those of its establishments
AddressesOf(company) ==
    (IF "address" \in DOMAIN company THEN {company["address"]} ELSE {})
        \cup (IF "establishments" \in DOMAIN company
              THEN {company["establishments"][i]["address"] :
                       i \in DOMAIN company["establishments"]}
              ELSE {})

\* C14 (as claimed): for a protected company (privacy_status "P"), after
\* redaction by filter_company, by apply_privacy_filters or by the profile
\* tool, no address of the company or of its establishments carries a street
\* or geographic coordinates, and each keeps its postal code and city.
C14_ProtectedAddressesRedacted ==
    (/\ pv_pc = "redacted"
     /\ pv_path \in CompanyPaths
     /\ pv_input["privacy_status"] = "P")
        => \A a \in AddressesOf(pv_out) :
              /\ DOMAIN a \cap {"street", "latitude", "longitude"} = {}
              /\ {"postal_code", "city"} \subseteq DOMAIN a

\* An executive dict that describes a natural person
NaturalPerson(e) ==
    \/ Get(e, "person_type") = "PHYSIQUE"
    \/ "is_individual" \in DOMAIN e /\ e["is_individual"] = TRUE

\* The executive's birth date is year and month only, and the full birth date
\* and the birth place are gone
BirthDetailsRedacted(before, after) ==
    /\ "birth_date" \in DOMAIN after
    /\ after["birth_date"] = SubSeq(before["birth_date"], 1, YearMonthLen)
    /\ DOMAIN after
          \cap {"date_naissance_complete", "lieu_naissance", "birth_place"} = {}

\* C15 (as claimed): for every natural-person executive, standalone or nested
\* in a company, redaction leaves birth_date as year-month only and removes
\* the full-birth-date and birth-place fields.
C15_BirthDetailsMasked ==
    /\ (pv_pc = "redacted" /\ pv_path = "executive" /\ NaturalPerson(pv_input))
          => BirthDetailsRedacted(pv_input, pv_out)
    /\ (pv_pc = "redacted" /\ pv_path = "filter_company")
          => \A i \in DOMAIN pv_input["executives"] :
                NaturalPerson(pv_input["executives"][i])
                   => BirthDetailsRedacted(pv_input["executives"][i],
                                           pv_out["executives"][i])

\* C16: redaction is idempotent: redacting an already redacted entity through
\* the same entry point returns it unchanged.
C16_Idempotent ==
    pv_pc = "again" => pv_again = pv_out

\* C16 witness: a second redaction has run on an entity whose first
\* redaction removed fields and cut a date down to year and month.
C16_Witness ==
    /\ pv_pc = "again"
    /\ pv_path = "executive"
    /\ "date_naissance" \in DOMAIN pv_out
    /\ pv_input["date_naissance"] = FullDate
    /\ pv_out["date_naissance"] = YearMonth
    /\ "lieu_naissance" \in DOMAIN pv_input
    /\ "lieu_naissance" \notin DOMAIN pv_out
    /\ pv_again = pv_out

(***************************************************************************)
(* Circuit breaker registry and decorator: get_circuit_breaker and         *)
(* circuit_breaker of resilience/circuit_breaker.py.  One function is      *)
(* decorated and then called by one caller, one call after the other.      *)
(***************************************************************************)

\* Bounds
MaxDecCalls == 6
MaxDecTime == 2

\* settings.circuit_breaker_failure_threshold and _recovery_timeout, and the
\* default of CircuitBreaker.__init__ for half_open_max_calls
default_failure_threshold == 5
default_recovery_timeout == 60
default_half_open_max_calls == 3

\* The name the function is decorated under
BreakerName == "test_decorated"

\* An argument left at its default None
NoneArg == 0

\* Exception classes: what the decorator may expect, what the function raises
ExceptionClasses == {"Exception", "RuntimeError"}
RaisedClasses == {"RuntimeError", "ValueError"}

\* isinstance(raised, expected) for these classes
IsInstance(raised, expected) == expected = "Exception" \/ raised = expected

\* The arguments the decorator may be given
DecThresholds == {2, default_failure_threshold}
DecTimeouts == {1, default_recovery_timeout}

EmptyRegistry == [n \in {} |-> 0]

\* CircuitBreaker.__init__
NewBreaker(threshold, timeout, expected) ==
    [failure_threshold |-> threshold, recovery_timeout |-> timeout,
     expected_exception |-> expected,
     half_open_max_calls |-> default_half_open_max_calls,
     state |-> CLOSED, failure_count |-> 0, last_failure_time |-> NoTime,
     success_count |-> 0, half_open_calls |-> 0]

\* get_circuit_breaker: the registry after the call.  A breaker is created
\* only when the name is not registered yet, with the settings' values for
\* the arguments that are None (or 0)
get_circuit_breaker(registry, name, threshold, timeout, expected) ==
    IF name \notin DOMAIN registry
    THEN [n \in DOMAIN registry \cup {name} |->
             IF n = name
             THEN NewBreaker(IF threshold # NoneArg THEN threshold
                             ELSE default_failure_threshold,
                             IF timeout # NoneArg THEN timeout
                             ELSE default_recovery_timeout,
                             expected)
             ELSE registry[n]]
    ELSE registry

\* CircuitBreaker._should_attempt_recovery of breaker b
DcShouldAttemptRecovery(b, now) ==
    IF b.last_failure_time = NoTime THEN TRUE
    ELSE (now - b.last_failure_time) >= b.recovery_timeout

\* CircuitBreaker._open_circuit and _close_circuit
DcOpen(b) == [b EXCEPT !.state = OPEN]
DcClose(b) == [b EXCEPT !.state = CLOSED, !.failure_count = 0, !.success_count = 0]

\* The locked prologue of CircuitBreaker.call: the breaker after it, and
\* whether the function is admitted.  An open breaker rejects unless recovery
\* is due; an exhausted half-open quota closes or opens the breaker and the
\* check is made again
RECURSIVE DcEnter(_, _)
DcEnter(b, now) ==
    IF b.state = OPEN /\ ~DcShouldAttemptRecovery(b, now)
    THEN [breaker |-> b, admitted |-> FALSE]
    ELSE LET b1 == IF b.state = OPEN
                   THEN [b EXCEPT !.state = HALF_OPEN, !.half_open_calls = 0]
                   ELSE b
         IN IF b1.state = HALF_OPEN
            THEN IF b1.half_open_calls >= b1.half_open_max_calls
                 THEN DcEnter(IF b1.success_count > 0 THEN DcClose(b1)
                              ELSE DcOpen(b1), now)
                 ELSE [breaker |-> [b1 EXCEPT !.half_open_calls = @ + 1],
                       admitted |-> TRUE]
            ELSE [breaker |-> b1, admitted |-> TRUE]

\* CircuitBreaker._on_success
DcOnSuccess(b) ==
    LET b1 == IF b.state = HALF_OPEN THEN [b EXCEPT !.success_count = @ + 1]
              ELSE b
    IN IF b1.state = CLOSED THEN [b1 EXCEPT !.failure_count = 0] ELSE b1

\* CircuitBreaker._on_failure
DcOnFailure(b, now) ==
    LET b1 == [b EXCEPT !.last_failure_time = now]
    IN IF b1.state = CLOSED
       THEN LET b2 == [b1 EXCEPT !.failure_count = @ + 1]
            IN IF b2.failure_count >= b2.failure_threshold THEN DcOpen(b2)
               ELSE b2
       ELSE IF b1.state = HALF_OPEN THEN DcOpen(b1)
       ELSE b1

\* What the function does when it runs: it returns, or raises
DcOutcomes == {"success"} \cup RaisedClasses

\* The breaker after the function ran with the given outcome
DcAfter(b, outcome, now) ==
    IF outcome = "success" THEN DcOnSuccess(b)
    ELSE IF IsInstance(outcome, b.expected_exception) THEN DcOnFailure(b, now)
    ELSE b

NoArgs ==
    [failure_threshold |-> NoneArg, recovery_timeout |-> NoneArg,
     expected_exception |-> "Exception"]

DCInit ==
    /\ dc_registry = EmptyRegistry
    /\ dc_args = NoArgs
    /\ dc_pc = "undecorated"
    /\ dc_now = 0
    /\ dc_streak = 0
    /\ dc_last = "none"
    /\ dc_ran = FALSE
    /\ dc_calls = 0

\* circuit_breaker(name, failure_threshold, recovery_timeout,
\* expected_exception)(func): the decorator keeps its arguments for the
\* wrapper and attaches get_circuit_breaker(breaker_name) to it, which
\* registers the breaker of that name with no argument given
Decorate(threshold, timeout, expected) ==
    /\ UNCHANGED notDecorator
    /\ dc_pc = "undecorated"
    /\ dc_args' = [failure_threshold |-> threshold,
                   recovery_timeout |-> timeout,
                   expected_exception |-> expected]
    /\ dc_registry' = get_circuit_breaker(dc_registry, BreakerName,
                                          NoneArg, NoneArg, "Exception")
    /\ dc_pc' = "ready"
    /\ UNCHANGED <<dc_now, dc_streak, dc_last, dc_ran, dc_calls>>

\* One call of the wrapper: it looks the breaker up with the decorator's
\* arguments and runs the function through breaker.call
WrapperCall(outcome) ==
    /\ UNCHANGED notDecorator
    /\ dc_pc = "ready"
    /\ dc_calls < MaxDecCalls
    /\ LET registry == get_circuit_breaker(dc_registry, BreakerName,
                                           dc_args.failure_threshold,
                                           dc_args.recovery_timeout,
                                           dc_args.expected_exception)
           entered == DcEnter(registry[BreakerName], dc_now)
       IN IF entered.admitted
          THEN /\ dc_registry' =
                     [registry EXCEPT
                         ![BreakerName] = DcAfter(entered.breaker, outcome, dc_now)]
               /\ dc_ran' = TRUE
               /\ dc_last' = IF outcome = "success" THEN "success" ELSE "raised"
               /\ dc_streak' =
                     IF outcome # "success"
                        /\ IsInstance(outcome, dc_args.expected_exception)
                     THEN dc_streak + 1
                     ELSE 0
          ELSE /\ dc_registry' = [registry EXCEPT ![BreakerName] = entered.breaker]
               /\ dc_ran' = FALSE
               /\ dc_last' = "rejected"
               /\ dc_streak' = dc_streak
    /\ dc_calls' = dc_calls + 1
    /\ UNCHANGED <<dc_args, dc_pc, dc_now>>

\* A second of wall-clock time passes
DcTick ==
    /\ UNCHANGED notDecorator
    /\ dc_now < MaxDecTime
    /\ dc_now' = dc_now + 1
    /\ UNCHANGED <<dc_registry, dc_args, dc_pc, dc_streak, dc_last, dc_ran,
                   dc_calls>>

NextDecorator ==
    \/ \E th \in DecThresholds : \E to \in DecTimeouts :
          \E ex \in ExceptionClasses : Decorate(th, to, ex)
    \/ \E outcome \in DcOutcomes : WrapperCall(outcome)
    \/ DcTick

(***************************************************************************)
(* Properties of the decorator                                             *)
(***************************************************************************)

\* C17 (as claimed): the breaker guarding a function decorated with
\* failure_threshold F, recovery_timeout T and expected_exception E uses
\* exactly F, T and E: once the function has failed F times in a row with an
\* exception of type E the circuit is open, so that the next call within T
\* seconds is rejected without running the function.
C17_DecoratorArgumentsUsed ==
    (/\ dc_pc = "ready"
     /\ dc_streak >= dc_args.failure_threshold
     /\ dc_now - dc_registry[BreakerName].last_failure_time
           < dc_args.recovery_timeout)
        => dc_registry[BreakerName].state = OPEN

(***************************************************************************)
(* Search fan-out and merge (tools/search_companies.py)                    *)
(***************************************************************************)

\* Bound of the search model: the number of source results one search merges
MaxResults == 3

\* The sources a CompanySearchResult can name (the Literal of its `source`)
SearchSources == {"recherche_entreprises", "rna", "sirene"}

\* Business keys a source may report; "" is what the associations search
\* puts in place of a missing key
SearchKeys == {"", "552100554"}

\* The optional fields of a search result that the model follows
SearchFields == {"legal_form", "naf_code"}

\* source_priority of _merge_company_data, with .get(source, 0)
source_priority(source) ==
    CASE source = "inpi_rne" -> 5
      [] source = "insee_sirene" -> 4
      [] source = "recherche_entreprises" -> 3
      [] source = "rna" -> 2
      [] source = "sirene" -> 1
      [] OTHER -> 0

\* `for field, value in other.dict().items(): if value is not None and
\* getattr(kept, field) is None: setattr(kept, field, value)`
FillMissing_none(kept, other) == kept

FillMissing(kept, other) ==
    [field \in DOMAIN kept |->
        IF other[field] # NoneValue /\ kept[field] = NoneValue
        THEN other[field] ELSE kept[field]]

\* CompanySearchOrchestrator._merge_company_data
merge_company_data(existing, new_data) ==
    IF source_priority(new_data.source) > source_priority(existing.source)
    THEN FillMissing(new_data, existing)
    ELSE FillMissing(existing, new_data)

\* The records one source can report for a key: every optional field is
\* either absent or carries a value that names the source it comes from
SearchRecords(source) ==
    {[siren |-> k, source |-> source, legal_form |-> lf, naf_code |-> naf] :
        k \in SearchKeys, lf \in {NoneValue, source}, naf \in {NoneValue, source}}

\* The result list of one source: empty, or one record
ResultLists(source) ==
    {<<>>} \cup {<<r>> : r \in SearchRecords(source)}

SRInit ==
    /\ sr_pc = "gather"
    /\ sr_results = <<>>
    /\ sr_idx = 1
    /\ sr_map = <<>>
    /\ sr_seen = {}

\* One of the search tasks handed to asyncio.gather returns its result dict;
\* the order in which the orchestrator registers its sources is left open
SrGather(source, companies) ==
    /\ UNCHANGED notSearch
    /\ sr_pc = "gather"
    /\ Len(sr_results) < MaxResults
    /\ \A i \in 1..Len(sr_results) : sr_results[i].source # source
    /\ sr_results' = Append(sr_results, [source |-> source, results |-> companies])
    /\ UNCHANGED <<sr_pc, sr_idx, sr_map, sr_seen>>

\* asyncio.gather returned: _merge_search_results starts
SrGathered ==
    /\ UNCHANGED notSearch
    /\ sr_pc = "gather"
    /\ sr_pc' = "merging"
    /\ UNCHANGED <<sr_results, sr_idx, sr_map, sr_seen>>

\* The body of `for company in source_result["results"]` for one company
MergeCompany(merged, company) ==
    LET siren == company.siren IN
    IF siren # "" /\ siren \notin merged.seen
    THEN [seen |-> merged.seen \cup {siren},
          map |-> (siren :> company) @@ merged.map]
    ELSE IF siren \in DOMAIN merged.map
    THEN [seen |-> merged.seen,
          map |-> [merged.map EXCEPT
                      ![siren] = merge_company_data(merged.map[siren], company)]]
    ELSE merged

RECURSIVE MergeCompanies(_, _)
MergeCompanies(merged, companies) ==
    IF companies = <<>> THEN merged
    ELSE MergeCompanies(MergeCompany(merged, Head(companies)), Tail(companies))

\* One turn of `for source_result in results`
SrMergeSource ==
    /\ UNCHANGED notSearch
    /\ sr_pc = "merging"
    /\ sr_idx <= Len(sr_results)
    /\ LET after == MergeCompanies([seen |-> sr_seen, map |-> sr_map],
                                   sr_results[sr_idx].results)
       IN /\ sr_seen' = after.seen
          /\ sr_map' = after.map
    /\ sr_idx' = sr_idx + 1
    /\ UNCHANGED <<sr_pc, sr_results>>

\* The loop over the sources is over: merged_map is complete
SrMerged ==
    /\ UNCHANGED notSearch
    /\ sr_pc = "merging"
    /\ sr_idx > Len(sr_results)
    /\ sr_pc' = "merged"
    /\ UNCHANGED <<sr_results, sr_idx, sr_map, sr_seen>>

\* Relevance scoring: `company.relevance_score = score` sets an attribute
\* that CompanySearchResult does not declare, which the model class refuses
\* with ValueError; an empty merged list is sorted, paginated and returned
SrRank ==
    /\ UNCHANGED notSearch
    /\ sr_pc = "merged"
    /\ sr_pc' = IF DOMAIN sr_map = {} THEN "returned" ELSE "raised"
    /\ UNCHANGED <<sr_results, sr_idx, sr_map, sr_seen>>

NextSearch ==
    \/ \E source \in SearchSources : \E companies \in ResultLists(source) :
          SrGather(source, companies)
    \/ SrGathered
    \/ SrMergeSource
    \/ SrMerged
    \/ SrRank

(***************************************************************************)
(* Properties of the search merge                                          *)
(***************************************************************************)

\* The records the sources reported for business key k
Reported(k) ==
    {r \in UNION {{sr_results[i].results[j] :
                      j \in 1..Len(sr_results[i].results)} :
                  i \in 1..Len(sr_results)} : r.siren = k}

\* The reported records for k that carry a value for the field
Supplying(k, field) == {r \in Reported(k) : r[field] # NoneValue}

\* C21 (as claimed): the merged result holds one record per business key,
\* and each of its fields is the non-null value of the highest-precedence
\* source that has one, whatever the order in which the results are merged.
C21_HighestPrecedenceWins ==
    sr_pc = "merged" =>
        \A k \in DOMAIN sr_map : \A field \in SearchFields \cup {"source"} :
            IF Supplying(k, field) = {} THEN sr_map[k][field] = NoneValue
            ELSE \E r \in Supplying(k, field) :
                    /\ \A q \in Supplying(k, field) :
                          source_priority(q.source) <= source_priority(r.source)
                    /\ sr_map[k][field] = r[field]

MaxFuCalls == 2

\* params.siren of the calls
ProfileSiren == "552100554"

\* A value is used by the merge when it is truthy: neither None nor ""
Truthy(v) == v \notin {NoneValue, ""}

\* What a task hands to asyncio.gather.  `none` is a None result, `failed`
\* records that the upstream call of the task raised; the three fields are
\* those of the legal-unit / company dict that the merge reads
TaskResult(none, failed, denomination, legal_form, creation_date) ==
    [none |-> none, failed |-> failed, denomination |-> denomination,
     legal_form |-> legal_form, creation_date |-> creation_date]

NoData(none, failed) == TaskResult(none, failed, NoneValue, NoneValue, NoneValue)

\* A legal form the registry adapter builds from a payload without
\* categorieJuridiqueUniteLegale: {"code": None, "label": ...}
NoCode == "insee:code=None"

\* _get_insee_data / _get_inpi_data: the adapter's dict, or None when the
\* adapter raised
CompanyTaskResults(source) ==
    {NoData(TRUE, TRUE)} \cup
    {TaskResult(FALSE, FALSE, d, l, c) :
        d \in {NoneValue, "", source},
        l \in {NoneValue, source} \cup (IF source = "insee" THEN {NoCode} ELSE {}),
        c \in {NoneValue, source}}

\* _get_establishments and _get_documents_list swallow the errors of their
\* upstream calls and return the (possibly empty) list; _get_certifications
\* returns a literal
TaskResults(name) ==
    CASE name \in {"insee", "inpi"} -> CompanyTaskResults(name)
      [] name \in {"establishments", "documents"} ->
            {NoData(FALSE, TRUE), NoData(FALSE, FALSE)}
      [] OTHER -> {NoData(FALSE, FALSE)}

\* lines 57-83: task_names for the params (bank info is never granted)
TaskNames(params) ==
    {"insee", "inpi"}
        \cup (IF params.include_establishments THEN {"establishments"} ELSE {})
        \cup (IF params.include_documents THEN {"documents"} ELSE {})
        \cup (IF params.include_certifications THEN {"certifications"} ELSE {})

ProfileParams ==
    [include_establishments : BOOLEAN, include_documents : BOOLEAN,
     include_certifications : BOOLEAN]

\* lines 93-101: result_map[name] is None for an exception, else the result
ResultMap(results) ==
    [name \in DOMAIN results |->
        IF results[name].none THEN NoData(TRUE, results[name].failed)
        ELSE results[name]]

\* data_sources.get(name) followed by `if data:`
Present(data_sources, name) ==
    name \in DOMAIN data_sources /\ ~data_sources[name].none

\* `merged.get(field) or other`
FirstTruthy_second(first, second) == second

FirstTruthy(first, second) == IF Truthy(first) THEN first ELSE second

\* CompanyProfileOrchestrator._merge_company_data, up to the Company object
ProfileMerge(data_sources, siren, privacy_status) ==
    LET base == [denomination |-> NoneValue, legal_form |-> NoneValue,
                 creation_date |-> NoneValue, source |-> <<>>,
                 privacy_status |-> privacy_status]
        inpi == IF Present(data_sources, "inpi")
                THEN [denomination |-> data_sources["inpi"].denomination,
                      legal_form |-> data_sources["inpi"].legal_form,
                      creation_date |-> data_sources["inpi"].creation_date,
                      source |-> <<"inpi_rne">>,
                      privacy_status |-> privacy_status]
                ELSE base
        insee == IF Present(data_sources, "insee")
                 THEN [denomination |->
                          FirstTruthy(inpi.denomination,
                                      data_sources["insee"].denomination),
                       legal_form |->
                          FirstTruthy(inpi.legal_form,
                                      data_sources["insee"].legal_form),
                       creation_date |->
                          FirstTruthy(inpi.creation_date,
                                      data_sources["insee"].creation_date),
                       source |-> Append(inpi.source, "insee_sirene"),
                       privacy_status |-> privacy_status]
                 ELSE inpi
    IN [insee EXCEPT !.denomination =
            IF Truthy(@) THEN @ ELSE "SIREN " \o siren]

\* Company(**merged): legal_form is Optional[Dict[str, str]], which a dict
\* with a None code does not satisfy
CompanyValidates(merged) == merged.legal_form # NoCode

\* _calculate_completeness: successful_sources / total_sources (* 100),
\* kept as the two integers
calculate_completeness(result_map) ==
    [successful |-> Cardinality({n \in DOMAIN result_map : ~result_map[n].none}),
     total |-> Cardinality(DOMAIN result_map)]

\* _build_metadata
build_metadata(result_map) ==
    [sources |-> {n \in DOMAIN result_map : ~result_map[n].none},
     completeness_score |-> calculate_completeness(result_map)]

NoOutput == [company |-> <<>>, metadata |-> <<>>]

\* The privacy probe has not run in the current call
NotProbed == "not_probed"

\* What insee_api.get_legal_unit does for the probe: it raises, returns
\* nothing, or returns a legal unit whose privacy_status is "O" or "P"
ProbeAnswers == {"raised", "nothing", "O", "P"}

\* A probe that fails closed: a failure counts as protected
check_privacy_status_closed(answer) ==
    IF answer \in {"raised", "nothing"} THEN "P" ELSE answer

\* _check_privacy_status (lines 147-157): the status of the legal unit, or
\* "O" when the call raised or returned nothing
check_privacy_status(answer) ==
    IF answer \in {"raised", "nothing"} THEN "O" ELSE answer

FUInit ==
    /\ fu_pc = "idle"
    /\ fu_cache = NoOutput
    /\ fu_tasks = {}
    /\ fu_results = <<>>
    /\ fu_company = <<>>
    /\ fu_out = NoOutput
    /\ fu_steps = {}
    /\ fu_hit = FALSE
    /\ fu_calls = 0
    /\ fu_ended = 0
    /\ fu_audit = 0
    /\ fu_probe = NotProbed

\* lines 46-52: the call starts with the cache lookup; a hit returns the
\* cached output at once
FuCall(params) ==
    /\ UNCHANGED notFusion
    /\ fu_pc \in {"idle", "returned", "raised"}
    /\ fu_calls < MaxFuCalls
    /\ fu_calls' = fu_calls + 1
    /\ fu_results' = <<>>
    /\ fu_company' = <<>>
    /\ fu_steps' = {}
    /\ IF fu_cache # NoOutput
       THEN /\ fu_pc' = "returned"
            /\ fu_hit' = TRUE
            /\ fu_out' = fu_cache
            /\ fu_tasks' = {}
            /\ fu_ended' = fu_ended + 1
       ELSE /\ fu_pc' = "probe"
            /\ fu_hit' = FALSE
            /\ fu_out' = NoOutput
            /\ fu_tasks' = TaskNames(params)
            /\ fu_ended' = fu_ended
    /\ fu_probe' = NotProbed
    /\ UNCHANGED <<fu_cache, fu_audit>>

\* line 55: the privacy probe is answered, and the tasks are handed to
\* asyncio.gather (lines 57-90)
FuProbe(answer) ==
    /\ UNCHANGED notFusion
    /\ fu_pc = "probe"
    /\ fu_probe' = answer
    /\ fu_pc' = "gather"
    /\ UNCHANGED <<fu_cache, fu_tasks, fu_results, fu_company, fu_out, fu_steps,
                   fu_hit, fu_calls, fu_ended, fu_audit>>

\* One of the tasks handed to asyncio.gather finishes
FuTaskDone(name, result) ==
    /\ UNCHANGED notFusion
    /\ fu_pc = "gather"
    /\ name \in fu_tasks \ DOMAIN fu_results
    /\ fu_results' = (name :> result) @@ fu_results
    /\ UNCHANGED <<fu_probe, fu_pc, fu_cache, fu_tasks, fu_company, fu_out, fu_steps,
                   fu_hit, fu_calls, fu_ended, fu_audit>>

\* lines 90-108: gather returns, result_map is built and merged; the call
\* raises when the merged dict does not validate as a Company
FuMerge ==
    /\ UNCHANGED notFusion
    /\ fu_pc = "gather"
    /\ DOMAIN fu_results = fu_tasks
    /\ LET merged == ProfileMerge(ResultMap(fu_results), ProfileSiren,
                                  check_privacy_status(fu_probe))
       IN IF CompanyValidates(merged)
          THEN /\ fu_pc' = "merged"
               /\ fu_company' = merged
               /\ fu_steps' = {"merge"}
               /\ fu_ended' = fu_ended
          ELSE /\ fu_pc' = "raised"
               /\ fu_company' = <<>>
               /\ fu_steps' = {}
               /\ fu_ended' = fu_ended + 1
    /\ UNCHANGED <<fu_probe, fu_cache, fu_tasks, fu_results, fu_out, fu_hit, fu_calls,
                   fu_audit>>

\* lines 110-120: redaction (which leaves the three fields alone), metadata
\* and the output object
FuBuild ==
    /\ UNCHANGED notFusion
    /\ fu_pc = "merged"
    /\ fu_out' = [company |-> fu_company,
                  metadata |-> build_metadata(ResultMap(fu_results))]
    /\ fu_steps' = fu_steps \cup {"redact", "metadata"}
    /\ fu_pc' = "built"
    /\ UNCHANGED <<fu_probe, fu_cache, fu_tasks, fu_results, fu_company, fu_hit, fu_calls,
                   fu_ended, fu_audit>>

\* lines 122-127: set_company_profile
FuStore ==
    /\ UNCHANGED notFusion
    /\ fu_pc = "built"
    /\ fu_cache' = fu_out
    /\ fu_steps' = fu_steps \cup {"store"}
    /\ fu_pc' = "stored"
    /\ UNCHANGED <<fu_probe, fu_tasks, fu_results, fu_company, fu_out, fu_hit, fu_calls,
                   fu_ended, fu_audit>>

\* lines 129-145: log_access, then the output is returned
FuAudit ==
    /\ UNCHANGED notFusion
    /\ fu_pc = "stored"
    /\ fu_audit' = fu_audit + 1
    /\ fu_steps' = fu_steps \cup {"audit"}
    /\ fu_pc' = "returned"
    /\ fu_ended' = fu_ended + 1
    /\ UNCHANGED <<fu_probe, fu_cache, fu_tasks, fu_results, fu_company, fu_out, fu_hit,
                   fu_calls>>

\* The cached profile outlives its ttl of one hour
FuExpire ==
    /\ UNCHANGED notFusion
    /\ fu_pc \in {"idle", "returned", "raised"}
    /\ fu_cache # NoOutput
    /\ fu_cache' = NoOutput
    /\ UNCHANGED <<fu_probe, fu_pc, fu_tasks, fu_results, fu_company, fu_out, fu_steps,
                   fu_hit, fu_calls, fu_ended, fu_audit>>

NextFusion ==
    \/ \E params \in ProfileParams : FuCall(params)
    \/ \E answer \in ProbeAnswers : FuProbe(answer)
    \/ \E name \in {"insee", "inpi", "establishments", "documents",
                    "certifications"} :
          \E result \in TaskResults(name) : FuTaskDone(name, result)
    \/ FuMerge
    \/ FuBuild
    \/ FuStore
    \/ FuAudit
    \/ FuExpire

(***************************************************************************)
(* Properties of the profile fusion                                        *)
(***************************************************************************)

\* The call has merged the results of its tasks
FuMerged == fu_pc \in {"merged", "built", "stored"} \/ (fu_pc = "returned" /\ ~fu_hit)

\* The value a finished company task supplies for a field, NoneValue if none
Supplied(name, field) ==
    IF fu_results[name].none \/ ~Truthy(fu_results[name][field]) THEN NoneValue
    ELSE fu_results[name][field]

\* C23: in a merged profile, denomination, legal form and creation date are
\* the trade-register (INPI) value whenever the trade-register supplies one,
\* and the registry (INSEE) value only when the trade-register value is
\* missing.
C23_TradeRegisterFirst ==
    FuMerged =>
        \A field \in {"denomination", "legal_form", "creation_date"} :
            /\ Supplied("inpi", field) # NoneValue =>
                  fu_company[field] = Supplied("inpi", field)
            /\ (Supplied("inpi", field) = NoneValue
                  /\ Supplied("insee", field) # NoneValue) =>
                  fu_company[field] = Supplied("insee", field)
            /\ fu_company[field] = "insee" => Supplied("inpi", field) = NoneValue

\* C23 witness: both sources answered; the trade-register has a denomination
\* and no legal form, the registry has both: the denomination is the
\* trade-register's and the legal form the registry's.
C23_Witness ==
    /\ FuMerged
    /\ Supplied("inpi", "denomination") = "inpi"
    /\ Supplied("insee", "denomination") = "insee"
    /\ Supplied("inpi", "legal_form") = NoneValue
    /\ Supplied("insee", "legal_form") = "insee"
    /\ fu_company.denomination = "inpi"
    /\ fu_company.legal_form = "insee"

\* The tasks of the current call whose upstream call raised
FailedTasks == {n \in DOMAIN fu_results : fu_results[n].failed}

\* The current call went past the cache and has returned or raised
FuEndedFresh == fu_pc \in {"returned", "raised"} /\ ~fu_hit

\* C24 (as claimed): when some but not all fan-out tasks of a profile request
\* fail, the request still returns a profile built from the remaining
\* sources (denomination "SIREN <key>" when no source supplies one) and its
\* completeness score is successful / attempted tasks, strictly below 100.
C24_PartialFailure ==
    (FuEndedFresh /\ FailedTasks # {} /\ FailedTasks # fu_tasks) =>
        /\ fu_pc = "returned"
        /\ (Supplied("inpi", "denomination") = NoneValue
              /\ Supplied("insee", "denomination") = NoneValue) =>
              fu_out.company.denomination = "SIREN " \o ProfileSiren
        /\ fu_out.metadata.completeness_score =
              [successful |-> Cardinality(fu_tasks \ FailedTasks),
               total |-> Cardinality(fu_tasks)]
        /\ fu_out.metadata.completeness_score.successful
              < fu_out.metadata.completeness_score.total

\* C25 (as claimed): when every fan-out task of a profile request fails the
\* request is aborted: it raises, and neither merge, redaction, metadata,
\* cache write nor audit are run.
C25_AllFailedAborts ==
    (fu_pc \notin {"idle", "gather"} /\ ~fu_hit /\ FailedTasks = fu_tasks) =>
        /\ fu_pc = "raised"
        /\ fu_steps = {}

\* C27 (as claimed): every tool operation that has terminated, with a fresh
\* result, a cache hit or a failure, has appended exactly one entry to the
\* audit ledger.
C27_OneAuditEntryPerOperation ==
    fu_pc \in {"idle", "returned", "raised"} => fu_audit = fu_ended

\* The optional tasks a request asks for (lines 66-76), and the optional tasks
\* whose results a cached output was built from (their helpers never return
\* None, so each of them is listed in metadata.sources)
PrimaryTasks == {"insee", "inpi"}
RequestedOptions(params) == TaskNames(params) \ PrimaryTasks
CachedOptions(out) == out.metadata.sources \ PrimaryTasks

\* C34 (as claimed): a profile request is answered from the cache only by a
\* response computed for an identical request, the same business key and the
\* same include options, and on such a hit no upstream adapter is called.
C34_HitOnlyForIdenticalRequest ==
    [][\A params \in ProfileParams :
          (FuCall(params) /\ fu_hit') =>
              /\ CachedOptions(fu_cache) = RequestedOptions(params)
              /\ fu_tasks' = {}]_vars

\* The output was assembled with data of at least one primary source
HasPrimaryData(out) == out.metadata.sources \cap PrimaryTasks # {}

\* C37 (as claimed): a profile response is in the cache only if the registry
\* or the trade-register returned data for the business key; a response
\* assembled from fallbacks alone is never stored and never served to a later
\* request from the cache.
C37_FallbackProfileNotCached ==
    /\ fu_cache # NoOutput => HasPrimaryData(fu_cache)
    /\ (fu_pc = "returned" /\ fu_hit) => HasPrimaryData(fu_out)

\* The probe of the current call raised or returned nothing
ProbeFailed == fu_probe \in {"raised", "nothing"}

\* The rules of the privacy filter that fire on a Company with this status
FiringRules(company) ==
    {i \in DOMAIN rules :
        "Company" \in rules[i].applies_to /\ ConditionMet(company, rules[i])}

\* C38: the privacy probe never fails a profile request.  When the registry
\* call of the probe raises or returns nothing, the call goes on to the
\* fan-out; the profile it assembles has privacy status "O", no redaction
\* rule fires on it, and the profile it returns is the one it cached.  The
\* call raises only where it raises after a successful probe as well: when
\* the merged record is not a valid Company.
C38_ProbeFailureIsOpen ==
    ProbeFailed =>
        /\ fu_pc # "probe"
        /\ FuMerged =>
              /\ fu_company.privacy_status = "O"
              /\ FiringRules(fu_company) = {}
        /\ fu_pc = "stored" =>
              /\ fu_cache = fu_out
              /\ fu_cache.company.privacy_status = "O"
        /\ (fu_pc = "returned" /\ ~fu_hit) =>
              /\ fu_out.company.privacy_status = "O"
              /\ "store" \in fu_steps
        /\ fu_pc = "raised" =>
              ~CompanyValidates(ProfileMerge(ResultMap(fu_results), ProfileSiren, "O"))

\* C38 witness: the probe raised, the registry task of the fan-out then
\* returned data, and the call returned and cached an open profile
C38_Witness ==
    /\ fu_probe = "raised"
    /\ fu_pc = "returned" /\ ~fu_hit
    /\ ~fu_results["insee"].none
    /\ fu_out.company.privacy_status = "O"
    /\ fu_cache = fu_out

(***************************************************************************)
(* Cache key (cache/manager.py)                                            *)
(***************************************************************************)

\* Bounds of the cache-key model: keys a params dict may hold (numbered in
\* their sort order) and the largest value
MaxKeys == 2
MaxValue == 3

\* hexdigest()[:16] keeps 64 bits of the digest; scaled to 4 bits here, so
\* that the digests are fewer than the params dicts of the bounds
DigestBits == 4

DictKeys_ck == 1..MaxKeys

\* The params dicts: items in insertion order, no key twice
ParamDicts ==
    {d \in UNION {[1..n -> DictKeys_ck \X (0..MaxValue)] : n \in 0..MaxKeys} :
        \A i \in 1..Len(d), j \in 1..Len(d) : i # j => d[i][1] # d[j][1]}

RECURSIVE SortedKeys(_)
SortedKeys(S) ==
    IF S = {} THEN <<>>
    ELSE LET m == CHOOSE x \in S : \A y \in S : x <= y
         IN <<m>> \o SortedKeys(S \ {m})

\* json.dumps(params, sort_keys=True, default=str): the items by key
canonicalJson(params) ==
    LET ks == SortedKeys({params[i][1] : i \in 1..Len(params)})
    IN [i \in 1..Len(params) |->
           <<ks[i], (params[CHOOSE j \in 1..Len(params) : params[j][1] = ks[i]])[2]>>]

\* hashlib.md5(stable_str.encode()).hexdigest()[:16]: a fixed function of
\* the characters of the string onto the digests of DigestBits bits
RECURSIVE md5_16(_, _)
md5_16(stable_str, h) ==
    IF stable_str = <<>> THEN h
    ELSE md5_16(Tail(stable_str),
                (h * 7 + Head(stable_str)[1] * (MaxValue + 2)
                    + Head(stable_str)[2] + 1) % (2 ^ DigestBits))

\* CacheManager._generate_cache_key
generate_cache_key(prefix, params) ==
    [prefix |-> prefix, hash_digest |-> md5_16(canonicalJson(params), 0)]

NoKey == [prefix |-> "", hash_digest |-> 0]

CKInit ==
    /\ ck_pc = "idle"
    /\ ck_a = <<>>
    /\ ck_b = <<>>
    /\ ck_key_a = NoKey
    /\ ck_key_b = NoKey

\* Two requests arrive with their params
CkRequests ==
    /\ UNCHANGED notCacheKey
    /\ ck_pc = "idle"
    /\ \E a \in ParamDicts : \E b \in ParamDicts :
          /\ ck_a' = a
          /\ ck_b' = b
    /\ ck_pc' = "chosen"
    /\ UNCHANGED <<ck_key_a, ck_key_b>>

\* get_search_result / set_search_result generate the key of each
CkGenerate ==
    /\ UNCHANGED notCacheKey
    /\ ck_pc = "chosen"
    /\ ck_key_a' = generate_cache_key("search:", ck_a)
    /\ ck_key_b' = generate_cache_key("search:", ck_b)
    /\ ck_pc' = "keyed"
    /\ UNCHANGED <<ck_a, ck_b>>

CkDone ==
    /\ UNCHANGED notCacheKey
    /\ ck_pc = "keyed"
    /\ ck_pc' = "idle"
    /\ ck_a' = <<>>
    /\ ck_b' = <<>>
    /\ ck_key_a' = NoKey
    /\ ck_key_b' = NoKey

NextCacheKey ==
    \/ CkRequests
    \/ CkGenerate
    \/ CkDone

(***************************************************************************)
(* Properties of the cache key                                             *)
(***************************************************************************)

\* C26 (as claimed): two inputs yield the same key if and only if their
\* canonical JSON is equal: permuting the keys of an input never changes the
\* key, and inputs with different canonical JSON never share a key.
C26_SameKeyIffSameCanonicalJson ==
    ck_pc = "keyed" =>
        (ck_key_a = ck_key_b <=> canonicalJson(ck_a) = canonicalJson(ck_b))

(***************************************************************************)
(* Ingestion run: ETLPipeline.process_dataset and ParquetLoader            *)
(* (pipeline/etl.py), without a transform function                         *)
(***************************************************************************)

\* Bounds of the ingestion model
MaxRuns == 3
MaxContent == 2

\* Width of the modelled digest
HashBits == 4

\* What the source URL may serve
FileContents == 1..MaxContent
NoScratch == 0
NoHash == -1

\* hashlib.sha256 of the file, as a digest of HashBits bits
sha256(content) == (content * 5 + 9) % (2 ^ HashBits)

ExpectedHashes == {NoHash} \cup {sha256(c) : c \in FileContents}

\* verify_file that accepts any file that exists
verify_file_any(file, expected_hash) == file # NoScratch

\* ParquetLoader.verify_file (lines 124-145)
verify_file(file, expected_hash) ==
    IF file = NoScratch THEN FALSE
    ELSE IF expected_hash # NoHash THEN sha256(file) = expected_hash
    ELSE TRUE

ETInit ==
    /\ et_pc = "idle"
    /\ et_expected = NoHash
    /\ et_file = NoScratch
    /\ et_recent = FALSE
    /\ et_status = "none"
    /\ et_mismatch = FALSE
    /\ et_loaded = FALSE
    /\ et_reused = FALSE
    /\ et_runs = 0

\* process_dataset is called (lines 180-207)
EtRun(expected_hash) ==
    /\ UNCHANGED notIngest
    /\ et_pc \in {"idle", "done"}
    /\ et_runs < MaxRuns
    /\ et_runs' = et_runs + 1
    /\ et_pc' = "download"
    /\ et_expected' = expected_hash
    /\ et_status' = "failed"
    /\ et_mismatch' = FALSE
    /\ et_loaded' = FALSE
    /\ et_reused' = FALSE
    /\ UNCHANGED <<et_file, et_recent>>

\* download_file lines 75-82: the scratch file exists and is less than 24
\* hours old: it is returned without a download
EtDownloadCached ==
    /\ UNCHANGED notIngest
    /\ et_pc = "download"
    /\ et_file # NoScratch /\ et_recent
    /\ et_reused' = TRUE
    /\ et_pc' = "verify"
    /\ UNCHANGED <<et_expected, et_file, et_recent, et_status, et_mismatch,
                   et_loaded, et_runs>>

\* download_file lines 84-115: the file is downloaded and written
EtDownload(content) ==
    /\ UNCHANGED notIngest
    /\ et_pc = "download"
    /\ ~(et_file # NoScratch /\ et_recent)
    /\ et_file' = content
    /\ et_recent' = TRUE
    /\ et_pc' = "verify"
    /\ UNCHANGED <<et_expected, et_status, et_mismatch, et_loaded, et_reused,
                   et_runs>>

\* download_file lines 117-122: the download raises, the partial file is
\* unlinked; process_dataset lines 234-243 record the failure
EtDownloadFails ==
    /\ UNCHANGED notIngest
    /\ et_pc = "download"
    /\ ~(et_file # NoScratch /\ et_recent)
    /\ et_file' = NoScratch
    /\ et_recent' = FALSE
    /\ et_status' = "failed"
    /\ et_pc' = "done"
    /\ UNCHANGED <<et_expected, et_mismatch, et_loaded, et_reused, et_runs>>

\* process_dataset lines 209-212: with an expected hash, verify_file; False
\* raises ValueError, which lines 234-243 turn into the failed result
EtVerify ==
    /\ UNCHANGED notIngest
    /\ et_pc = "verify"
    /\ IF et_expected # NoHash /\ ~verify_file(et_file, et_expected)
       THEN /\ et_mismatch' = TRUE
            /\ et_status' = "failed"
            /\ et_pc' = "done"
       ELSE /\ et_pc' = "load"
            /\ UNCHANGED <<et_mismatch, et_status>>
    /\ UNCHANGED <<et_expected, et_file, et_recent, et_loaded, et_reused,
                   et_runs>>

\* process_dataset lines 219-232: load_to_duckdb is invoked and returns the
\* record count, or raises (lines 234-243)
EtLoad(ok) ==
    /\ UNCHANGED notIngest
    /\ et_pc = "load"
    /\ et_loaded' = TRUE
    /\ et_status' = IF ok THEN "success" ELSE "failed"
    /\ et_pc' = "done"
    /\ UNCHANGED <<et_expected, et_file, et_recent, et_mismatch, et_reused,
                   et_runs>>

\* The scratch file becomes more than 24 hours old
EtAges ==
    /\ UNCHANGED notIngest
    /\ et_pc \in {"idle", "done"}
    /\ et_recent
    /\ et_recent' = FALSE
    /\ UNCHANGED <<et_pc, et_expected, et_file, et_status, et_mismatch,
                   et_loaded, et_reused, et_runs>>

NextIngest ==
    \/ \E expected_hash \in ExpectedHashes : EtRun(expected_hash)
    \/ EtDownloadCached
    \/ \E content \in FileContents : EtDownload(content)
    \/ EtDownloadFails
    \/ EtVerify
    \/ \E ok \in BOOLEAN : EtLoad(ok)
    \/ EtAges

(***************************************************************************)
(* Properties of the ingestion run                                         *)
(***************************************************************************)

\* C35 (as claimed): when an expected hash is supplied and the SHA-256 of
\* the downloaded file differs from it, the run ends with status failed, the
\* analytic-store load is not invoked, and the scratch file is deleted, so
\* that the next run finds no file to reuse and downloads it again.
C35_MismatchAbortsAndDeletes ==
    (et_pc = "done" /\ et_mismatch) =>
        /\ et_status = "failed"
        /\ ~et_loaded
        /\ et_file = NoScratch

(***************************************************************************)
(* Search pagination: CompanySearchOrchestrator.search_companies with one  *)
(* source (tools/search_companies.py).  The entries that match the query   *)
(* are numbered by their rank in the source, which is also their place in  *)
(* the merged, sorted list.                                                *)
(***************************************************************************)

\* Bounds of the pagination model
MaxPage == 3
MaxPerPage == 3
MaxHits == 4

Pages == 1..MaxPage
PerPages == 1..MaxPerPage

NoParams == [page |-> 0, per_page |-> 0]
NoAsk == [offset |-> -1, limit |-> -1]

\* The smaller of two numbers
Smaller(a, b) == IF a < b THEN a ELSE b

\* Python's list[start:end] on a list, with 0-based start and end
PySlice(list, start, end) ==
    SubSeq(list, start + 1, Smaller(end, Len(list)))

\* The entries of rank 1..n, in order
Ranked(n) == [i \in 1..n |-> i]

\* _search_static_data lines 177-181 (limit=per_page, offset=(page-1)*
\* per_page); _search_recherche_entreprises lines 97-100 and _search_insee
\* lines 138-142 hand page and per_page to their adapters, which is the same
\* window
AskSource(page, per_page) ==
    [offset |-> (page - 1) * per_page, limit |-> per_page]

\* What a source answers: the window of its matching entries
SourceWindow(hits, ask) ==
    PySlice(Ranked(hits), ask.offset, ask.offset + ask.limit)

\* _merge_search_results lines 258-267: the merged list is cut to the
\* page of the request
Paginate(merged_list, page, per_page) ==
    PySlice(merged_list, (page - 1) * per_page, (page - 1) * per_page + per_page)

PGInit ==
    /\ pg_pc = "idle"
    /\ pg_params = NoParams
    /\ pg_hits = 0
    /\ pg_asked = NoAsk
    /\ pg_found = <<>>
    /\ pg_response = <<>>

\* search_companies lines 46-66: the request arrives and the source is asked
PgSearch(page, per_page, hits) ==
    /\ UNCHANGED notPaging
    /\ pg_pc \in {"idle", "returned", "raised"}
    /\ pg_params' = [page |-> page, per_page |-> per_page]
    /\ pg_hits' = hits
    /\ pg_asked' = AskSource(page, per_page)
    /\ pg_found' = <<>>
    /\ pg_response' = <<>>
    /\ pg_pc' = "asked"

\* The source answers (line 68)
PgSourceAnswers ==
    /\ UNCHANGED notPaging
    /\ pg_pc = "asked"
    /\ pg_found' = SourceWindow(pg_hits, pg_asked)
    /\ pg_pc' = "found"
    /\ UNCHANGED <<pg_params, pg_hits, pg_asked, pg_response>>

\* _merge_search_results lines 215-267: a non-empty merged list raises at
\* the assignment of relevance_score (line 256); an empty one is sorted and
\* paginated, and the response is built from it (lines 76-90)
PgMergeAndPaginate ==
    /\ UNCHANGED notPaging
    /\ pg_pc = "found"
    /\ IF pg_found # <<>>
       THEN /\ pg_pc' = "raised"
            /\ UNCHANGED pg_response
       ELSE /\ pg_pc' = "returned"
            /\ pg_response' = Paginate(pg_found, pg_params.page, pg_params.per_page)
    /\ UNCHANGED <<pg_params, pg_hits, pg_asked, pg_found>>

NextPaging ==
    \/ \E page \in Pages, per_page \in PerPages, hits \in 0..MaxHits :
          PgSearch(page, per_page, hits)
    \/ PgSourceAnswers
    \/ PgMergeAndPaginate

(***************************************************************************)
(* Properties of the search pagination                                     *)
(***************************************************************************)

\* C39 (as claimed): pagination is applied exactly once, client-side: for a
\* request (page=p, per_page=n) the source is asked for its leading results
\* irrespective of p, and the response holds the entries at positions
\* (p-1)*n+1 .. p*n of the merged, sorted list.
C39_PaginatedOnceClientSide ==
    /\ pg_pc # "idle" => pg_asked.offset = 0
    /\ pg_pc \in {"returned", "raised"} =>
          /\ pg_pc = "returned"
          /\ pg_response =
                Paginate(Ranked(pg_hits), pg_params.page, pg_params.per_page)

Init ==
    /\ CBInit /\ AuthInit /\ RLInit /\ RTInit /\ PFInit /\ LDInit /\ SJInit
    /\ AUInit /\ PVInit /\ DCInit /\ SRInit /\ FUInit /\ CKInit /\ ETInit
    /\ PGInit

NextBreaker ==
    \/ \E t \in CBTasks : CallRejected(t)
    \/ \E t \in CBTasks : CallAdmitted(t)
    \/ \E t \in CBTasks : CallQuotaExhausted(t)
    \/ \E t \in CBTasks : OnSuccess(t)
    \/ \E t \in CBTasks : OnFailure(t)
    \/ \E t \in CBTasks : OnUnexpected(t)
    \/ \E t \in CBTasks : OnOutcomeBlocked(t)
    \/ \E t \in CBTasks : CallReturn(t)
    \/ CBTick

SpecBreaker == Init /\ [][NextBreaker]_vars

SpecAuth == Init /\ [][NextAuth]_vars

SpecRateSeq == Init /\ [][NextRateSeq]_vars

SpecRate == Init /\ [][NextRate]_vars

SpecRetry == Init /\ [][NextRetry]_vars

SpecRequest == Init /\ [][NextRequest]_vars

SpecProfile == Init /\ [][NextProfile]_vars

SpecLoad == Init /\ [][NextLoad]_vars

SpecSched == Init /\ [][NextSched]_vars

SpecSchedLive == Init /\ [][NextSched]_vars /\ SchedFairness

SpecAudit == Init /\ [][NextAudit]_vars

SpecPrivacy == Init /\ [][NextPrivacy]_vars

SpecDecorator == Init /\ [][NextDecorator]_vars

SpecSearch == Init /\ [][NextSearch]_vars

SpecFusion == Init /\ [][NextFusion]_vars

SpecCacheKey == Init /\ [][NextCacheKey]_vars

SpecIngest == Init /\ [][NextIngest]_vars

SpecPaging == Init /\ [][NextPaging]_vars

====
